---- MODULE Spec2Model ----
(***************************************************************************)
(* cfavml: runtime-dispatched vector kernels.                              *)
(*                                                                         *)
(* Two layers are modelled:                                                *)
(*   - the safe dispatchers generated by the export_safe_* macros of       *)
(*     arithmetic_ops.rs and min_max_sum_ops.rs (shape assertions, cfg     *)
(*     gated CPU probes, shim call);                                       *)
(*   - the hand written kernels of danger/f32_avx2_max.rs and              *)
(*     danger/f64_avx512_sum.rs, one action per loop iteration.            *)
(*                                                                         *)
(* Slices are sequences; the element at Rust index n is s[n + 1].          *)
(* Floats are modelled by integers (every value used is exactly            *)
(* representable, so f64 addition is exact on them), with two encoded      *)
(* specials: NEG_INFINITY below every finite value and NAN.                *)
(***************************************************************************)
EXTENDS Integers, Sequences, FiniteSets, TLC

VARIABLES
    pc,        \* position of the running call
    shape,     \* which export_safe_* macro generated the entry point
    form,      \* "xconst" or "xany"
    DIMS,      \* the const generic of an xconst entry point (0 for xany)
    value,     \* scalar operand of a vector-x-value call
    a,         \* first input slice (arr / x of the horizontal kernels)
    b,         \* second input slice
    result,    \* caller's output slice
    result0,   \* result as it was when the call started
    arch,      \* compiled target_arch
    nightly,   \* cargo feature "nightly"
    debug,     \* cfg(debug_assertions)
    host,      \* what the CPU feature probes answer on this host
    probes,    \* probes made by the running call, in order: <<feature, answer>>
    shims,     \* shims invoked by the running call, in order
    kernel,    \* name of the kernel function being executed ("" if none)
    matrix,    \* rows handed to a vertical matrix kernel
    i,         \* loop index of the kernel
    acc,       \* acc1..acc8 of the kernel
    max,       \* scalar running maximum of the xany max kernel
    results,   \* output Vec of a vertical matrix kernel (max_values / results)
    ret,       \* value returned by a horizontal kernel
    oob,       \* an index outside its slice has been accessed
    trace,     \* accumulator updates of the running kernel, in order
    prev,      \* summary of the previous kernel call on the same input
    op,        \* operation of the entry point: add, sub, mul, div, max, min, sum, ...
    ty,        \* element type of the entry point
    calls,     \* the calls the caller has finished before the running one, in order
    mem,       \* memory shared by the threads of a concurrent run
    threads    \* per thread: the call it makes and how far the call has come

vars ==
    <<pc, shape, form, DIMS, value, a, b, result, result0, arch, nightly, debug,
      host, probes, shims, kernel, matrix, i, acc, max, results, ret, oob, trace, prev,
      op, ty, calls, mem, threads>>

callVars ==
    <<shape, form, DIMS, value, a, b, result0, arch, nightly, debug, host, matrix,
      op, ty, calls, mem, threads>>

kernelVars == <<kernel, i, acc, max, results, ret, oob, trace, prev>>

(***************************************************************************)
(* Bounds of the model.                                                    *)
(***************************************************************************)
\* Largest number of whole 64-element blocks in an input.
MaxBlocks == 2

\* Largest number of rows in a matrix.
MaxRows == 2

(***************************************************************************)
(* Program constants.                                                      *)
(***************************************************************************)
\* Elements per dense-loop iteration (i += 64).
BLOCK == 64

\* Lanes of one __m256 of f32 and of one __m512d of f64 (i += 8).
LANES == 8

\* Encoding of f32::NEG_INFINITY: below every finite value of the model.
NEG_INFINITY == -1000000

\* Encoding of a NaN: a value outside the ordered range of the model.
NAN == NEG_INFINITY - 1

Null == "null"

X86 == {"x86", "x86_64"}

Archs == {"x86", "x86_64", "aarch64", "other"}

Shapes == {"vector_x_value", "vector_x_vector", "horizontal", "vertical"}

Min(x, y) == IF x < y THEN x ELSE y

(***************************************************************************)
(* Scalar and lanewise float operations.                                   *)
(***************************************************************************)
\* f32::max(self, other): a NaN operand is ignored, the other one is returned.
F32Max(self, other) ==
    IF self = NAN THEN other
    ELSE IF other = NAN THEN self
    ELSE IF self > other THEN self ELSE other

\* One lane of _mm256_max_ps(x, y): x > y ? x : y, so the second operand
\* comes back whenever either one is a NaN.
MaxLane(x, y) ==
    IF x # NAN /\ y # NAN /\ x > y THEN x ELSE y

\* One lane of _mm512_add_pd(x, y) on exactly representable values.
AddLane(x, y) ==
    IF x = NAN \/ y = NAN THEN NAN ELSE x + y

Lanes == 1..LANES

\* _mm256_max_ps on two registers.
MaxPs(x, y) == [k \in Lanes |-> MaxLane(x[k], y[k])]

\* _mm512_add_pd on two registers.
AddPd(x, y) == [k \in Lanes |-> AddLane(x[k], y[k])]

\* _mm256_set1_ps(v) / _mm512_setzero_pd().
Set1(v) == [k \in Lanes |-> v]

(***************************************************************************)
(* Element types and the scalar math capability (crate::math::AutoMath).   *)
(* i8 and u8 keep their width of 8 bits, where small inputs already        *)
(* overflow; floats are exact, with the specials encoded.                  *)
(***************************************************************************)
Types == {"f32", "i8", "u8"}

IsFloat(t) == t \in {"f32", "f64"}

Signed(t) == t \in {"i8", "i16", "i32", "i64"}

\* Width of the type in bits.
Bits(t) ==
    CASE t \in {"i8", "u8"} -> 8
      [] t \in {"i16", "u16"} -> 16
      [] t \in {"f32", "i32", "u32"} -> 32
      [] OTHER -> 64

\* Bits of one lane value of the integer types wider than 8 bits.  The
\* model checker's integers have 32 bits and the product of two lanes has
\* to be exact before it is reduced, so these types keep their lane count
\* (Bits) and are reduced modulo 2^WideBits.
WideBits == 10

\* Bits of one lane value of the type in the model.
Width(t) == IF Bits(t) = 8 THEN 8 ELSE WideBits

\* Encoding of f32::INFINITY.
INFINITY == 0 - NEG_INFINITY

\* Encoding of a float quotient that is not a whole number.
INEXACT == NAN - 1

Abs(x) == IF x < 0 THEN 0 - x ELSE x

\* The exact result x reduced to the integer type t: modulo 2^w, read in
\* two's complement for the signed types.
Wrap(t, x) ==
    IF IsFloat(t) THEN x
    ELSE IF Signed(t) THEN ((x + 2 ^ (Width(t) - 1)) % (2 ^ Width(t))) - 2 ^ (Width(t) - 1)
    ELSE x % (2 ^ Width(t))

\* Integer division of Rust: the quotient is truncated towards zero.
TruncDiv(x, y) ==
    IF (x < 0) = (y < 0) THEN Abs(x) \div Abs(y) ELSE 0 - (Abs(x) \div Abs(y))

\* IEEE-754 add, sub, mul and div on the floats of the model.
FloatOp(o, x, y) ==
    IF x = NAN \/ y = NAN THEN NAN
    ELSE CASE o = "add" -> x + y
           [] o = "sub" -> x - y
           [] o = "mul" -> x * y
           [] OTHER ->
                IF y = 0 THEN (IF x = 0 THEN NAN ELSE IF x > 0 THEN INFINITY ELSE NEG_INFINITY)
                ELSE IF Abs(x) % Abs(y) = 0 THEN TruncDiv(x, y)
                ELSE INEXACT

\* AutoMath::add / sub / mul / div for the type t; the integer operations
\* wrap.  An integer division by zero does not return (DivPanics).
MathOp(t, o, x, y) ==
    IF IsFloat(t) THEN FloatOp(o, x, y)
    ELSE CASE o = "add" -> Wrap(t, x + y)
           [] o = "sub" -> Wrap(t, x - y)
           [] o = "mul" -> Wrap(t, x * y)
           [] OTHER -> IF y = 0 THEN 0 ELSE Wrap(t, TruncDiv(x, y))

\* AutoMath::cmp_max / cmp_min: f32::max / f32::min for floats, Ord for integers.
MathCmp(t, o, x, y) ==
    IF IsFloat(t) /\ x = NAN THEN y
    ELSE IF IsFloat(t) /\ y = NAN THEN x
    ELSE IF o = "max" THEN (IF x > y THEN x ELSE y)
    ELSE (IF x < y THEN x ELSE y)

(***************************************************************************)
(* The register capability (SimdRegister<T>), one lane at a time.          *)
(***************************************************************************)
Backends == {"avx512", "avx2", "neon", "fallback"}

\* Lanes of one register: Fallback's Register is T itself, Neon's is a
\* 128-bit vector (float32x4_t, int8x16_t, ...); AVX2 has 256 and AVX-512
\* 512 bits.
LanesOf(be, t) ==
    CASE be = "fallback" -> 1
      [] be = "neon" -> 128 \div Bits(t)
      [] be = "avx2" -> 256 \div Bits(t)
      [] OTHER -> 512 \div Bits(t)

\* Fallback whose add forwards to AutoMath::sub.
FallbackOp_AddAsSub(t, o, l1, l2) ==
    IF o \in {"max", "min"} THEN MathCmp(t, o, l1, l2)
    ELSE MathOp(t, IF o = "add" THEN "sub" ELSE o, l1, l2)

\* Fallback whose mul forwards to AutoMath::add.
FallbackOp_MulAsAdd(t, o, l1, l2) ==
    IF o \in {"max", "min"} THEN MathCmp(t, o, l1, l2)
    ELSE MathOp(t, IF o = "mul" THEN "add" ELSE o, l1, l2)

\* Fallback with the two registers passed to AutoMath in the wrong order.
FallbackOp_SwappedOperands(t, o, l1, l2) ==
    IF o \in {"max", "min"} THEN MathCmp(t, o, l2, l1) ELSE MathOp(t, o, l2, l1)

\* <Fallback as SimdRegister<T>>::{add, sub, mul, div, max, min}.
FallbackOp(t, o, l1, l2) ==
    IF o \in {"max", "min"} THEN MathCmp(t, o, l1, l2) ELSE MathOp(t, o, l1, l2)

\* Neon whose integer add is the saturating vqaddq.
NeonOp_SaturatingAdd(t, o, l1, l2) ==
    IF o \in {"max", "min"} THEN
        IF IsFloat(t) /\ (l1 = NAN \/ l2 = NAN) THEN NAN ELSE MathCmp(t, o, l1, l2)
    ELSE IF o = "add" /\ ~IsFloat(t) THEN
        LET lo == IF Signed(t) THEN 0 - 2 ^ (Bits(t) - 1) ELSE 0
            hi == IF Signed(t) THEN 2 ^ (Bits(t) - 1) - 1 ELSE 2 ^ Bits(t) - 1
        IN  IF l1 + l2 > hi THEN hi ELSE IF l1 + l2 < lo THEN lo ELSE l1 + l2
    ELSE MathOp(t, o, l1, l2)

\* Neon whose integer max and min call vaddq where vmaxq / vminq belong.
NeonOp_MaxAsAdd(t, o, l1, l2) ==
    IF o \in {"max", "min"} THEN
        IF IsFloat(t) THEN (IF l1 = NAN \/ l2 = NAN THEN NAN ELSE MathCmp(t, o, l1, l2))
        ELSE Wrap(t, l1 + l2)
    ELSE MathOp(t, o, l1, l2)

\* Neon with the integer quotient rounded down instead of towards zero.
NeonOp_FloorDiv(t, o, l1, l2) ==
    IF o \in {"max", "min"} THEN
        IF IsFloat(t) /\ (l1 = NAN \/ l2 = NAN) THEN NAN ELSE MathCmp(t, o, l1, l2)
    ELSE IF o = "div" /\ ~IsFloat(t) THEN
        IF l2 = 0 THEN 0
        ELSE IF l2 > 0 THEN Wrap(t, l1 \div l2)
        ELSE Wrap(t, (0 - l1) \div (0 - l2))
    ELSE MathOp(t, o, l1, l2)

\* One lane of <Neon as SimdRegister<T>>::{add, sub, mul, div, max, min}:
\* vaddq / vsubq / vmulq keep the low bits of each lane, the integer
\* division goes lane by lane through AutoMath::div, and vmaxq_f32 /
\* vminq_f32 give NaN when either lane is NaN.
NeonOp(t, o, l1, l2) ==
    IF o \in {"max", "min"} THEN
        IF IsFloat(t) /\ (l1 = NAN \/ l2 = NAN) THEN NAN ELSE MathCmp(t, o, l1, l2)
    ELSE IF o = "div" /\ ~IsFloat(t) THEN MathOp(t, "div", l1, l2)
    ELSE IF IsFloat(t) THEN FloatOp(o, l1, l2)
    ELSE CASE o = "add" -> Wrap(t, l1 + l2)
           [] o = "sub" -> Wrap(t, l1 - l2)
           [] OTHER -> Wrap(t, l1 * l2)

\* One lane of the AVX2 / AVX-512 register operations: the float maximum
\* and minimum are _mm256_max_ps / _mm256_min_ps (the second operand comes
\* back when either is NaN).
AvxOp(t, o, l1, l2) ==
    IF o \in {"max", "min"} THEN
        IF IsFloat(t) THEN
            IF l1 # NAN /\ l2 # NAN /\ (IF o = "max" THEN l1 > l2 ELSE l1 < l2) THEN l1 ELSE l2
        ELSE MathCmp(t, o, l1, l2)
    ELSE MathOp(t, o, l1, l2)

\* R::op(l1, l2) for the register capability R of the backend.
RegOp(be, t, o, l1, l2) ==
    CASE be = "fallback" -> FallbackOp(t, o, l1, l2)
      [] be = "neon" -> NeonOp(t, o, l1, l2)
      [] OTHER -> AvxOp(t, o, l1, l2)

(***************************************************************************)
(* Inputs.  A slice of the model is a fixed pattern of negative values    *)
(* with one peak; a NaN may follow the peak at a given distance.           *)
(***************************************************************************)
\* How far below zero the peak of a slice lies.
PeakDepth == 1

PEAK == 0 - PeakDepth

\* The other elements: five values, all below the peak.
Pattern(n) == PEAK - 2 - ((n * 7) % 5)

\* The slice of length len with its peak at Rust index p and, when
\* nanOff > 0 and the slice is long enough, a NaN at index p + nanOff.
Slice(len, p, nanOff) ==
    [n \in 1..len |->
        IF n - 1 = p THEN PEAK
        ELSE IF nanOff > 0 /\ n - 1 = p + nanOff THEN NAN
        ELSE Pattern(n - 1)]

Plain(len) == Slice(len, len - 1, 0)

\* Lengths of the slices handed to the horizontal entry points.
HorizLens ==
    {9, BLOCK + LANES} \cup {BLOCK * q : q \in 1..MaxBlocks} \cup {BLOCK * q + 9 : q \in 1..MaxBlocks}

\* Lengths of the slices handed to the element-wise entry points.
ElemLens == {2, 3}

\* Const generics the xconst entry points are instantiated with.
HorizDims == {BLOCK * q : q \in 1..MaxBlocks} \cup {BLOCK + LANES}

ElemDims == {2, BLOCK}

\* Probe answers a host of the given architecture can give.
Hosts(ar) ==
    IF ar \in X86 THEN
        {[avx512f |-> x, avx2 |-> y, neon |-> FALSE] : x \in BOOLEAN, y \in BOOLEAN}
    ELSE IF ar = "aarch64" THEN
        {[avx512f |-> FALSE, avx2 |-> FALSE, neon |-> y] : y \in BOOLEAN}
    ELSE {[avx512f |-> FALSE, avx2 |-> FALSE, neon |-> FALSE]}

(***************************************************************************)
(* The dispatchers (export_safe_* macros).                                 *)
(***************************************************************************)
\* The assert_eq! lines at the head of an entry point.
ShapesOk_NoResultCheck(sh, la, lb, lr) ==
    CASE sh = "vector_x_value" -> TRUE
      [] sh = "vector_x_vector" -> la = lb
      [] sh = "vertical" -> la = lb
      [] OTHER -> TRUE

ShapesOk(sh, la, lb, lr) ==
    CASE sh = "vector_x_value" -> la = lr
      [] sh = "vector_x_vector" -> la = lb /\ la = lr
      [] sh = "vertical" -> la = lb /\ la = lr
      [] OTHER -> TRUE

\* #[cfg(all(any(target_arch = "x86", target_arch = "x86_64"), feature = "nightly"))]
Avx512Compiled_NoNightlyGate(ar, ni) == ar \in X86

Avx512Compiled(ar, ni) == ar \in X86 /\ ni

\* #[cfg(any(target_arch = "x86", target_arch = "x86_64"))]
Avx2Compiled(ar) == ar \in X86

\* #[cfg(target_arch = "aarch64")]
NeonCompiled(ar) == ar = "aarch64"

\* std::arch::is_x86_feature_detected!(f) / is_aarch64_feature_detected!(f)
Detected_WrongFeature(f) == IF f = "avx512f" THEN host["avx2"] ELSE host[f]

Detected(f) == host[f]

\* The kernels of this model that a dispatcher reaches: the horizontal entry
\* points are f32_xconst_max_horizontal / f32_xany_max_horizontal, whose AVX2
\* shims are the kernels of f32_avx2_max.rs.
KernelOf(sh, fo, s) ==
    IF sh = "horizontal" /\ s = "avx2" /\ op = "max" /\ ty = "f32" THEN
        IF fo = "xconst" THEN "f32_xconst_avx2_nofma_max_horizontal"
        ELSE "f32_xany_avx2_nofma_max_horizontal"
    ELSE ""

\* return $shim(...): control enters the shim.
InvokeShim(s) ==
    /\ shims' = Append(shims, s)
    /\ kernel' = KernelOf(shape, form, s)
    /\ pc' = IF KernelOf(shape, form, s) # "" THEN "enter" ELSE "shim"

AssertShapes ==
    /\ pc = "call"
    /\ pc' = IF ShapesOk(shape, Len(a), Len(b), Len(result)) THEN "probe_avx512" ELSE "panic_shape"
    /\ UNCHANGED <<callVars, result, probes, shims, kernelVars>>

ProbeAvx512 ==
    /\ pc = "probe_avx512"
    /\ IF Avx512Compiled(arch, nightly) THEN
           /\ probes' = Append(probes, <<"avx512f", Detected("avx512f")>>)
           /\ IF Detected("avx512f") THEN InvokeShim("avx512")
              ELSE pc' = "probe_avx2" /\ UNCHANGED <<shims, kernel>>
       ELSE
           /\ pc' = "probe_avx2"
           /\ UNCHANGED <<probes, shims, kernel>>
    /\ UNCHANGED <<callVars, result, i, acc, max, results, ret, oob, trace, prev>>

ProbeAvx2 ==
    /\ pc = "probe_avx2"
    /\ IF Avx2Compiled(arch) THEN
           /\ probes' = Append(probes, <<"avx2", Detected("avx2")>>)
           /\ IF Detected("avx2") THEN InvokeShim("avx2")
              ELSE pc' = "probe_neon" /\ UNCHANGED <<shims, kernel>>
       ELSE
           /\ pc' = "probe_neon"
           /\ UNCHANGED <<probes, shims, kernel>>
    /\ UNCHANGED <<callVars, result, i, acc, max, results, ret, oob, trace, prev>>

ProbeNeon ==
    /\ pc = "probe_neon"
    /\ IF NeonCompiled(arch) THEN
           /\ probes' = Append(probes, <<"neon", Detected("neon")>>)
           /\ IF Detected("neon") THEN InvokeShim("neon")
              ELSE pc' = "fallback" /\ UNCHANGED <<shims, kernel>>
       ELSE
           /\ pc' = "fallback"
           /\ UNCHANGED <<probes, shims, kernel>>
    /\ UNCHANGED <<callVars, result, i, acc, max, results, ret, oob, trace, prev>>

CallFallback ==
    /\ pc = "fallback"
    /\ InvokeShim("fallback")
    /\ UNCHANGED <<callVars, result, probes, i, acc, max, results, ret, oob, trace, prev>>

(***************************************************************************)
(* Memory.  A read outside its slice is undefined behaviour: the call may  *)
(* fault, or go on with whatever the memory held.                          *)
(***************************************************************************)
Garbage == {0, PEAK - 1}

\* Whether the n elements at Rust indices off .. off + n - 1 lie inside s.
InBounds(s, off, n) == off + n <= Len(s)

\* What a read of n elements at off can do.
ReadOutcomes(s, off, n) ==
    IF InBounds(s, off, n) THEN {<<"ok", 0>>}
    ELSE {<<"fault", 0>>} \cup {<<"read", g>> : g \in Garbage}

\* _mm256_loadu_ps(ptr.add(off)) / _mm512_loadu_pd(ptr.add(off)).
Load(s, off, g) == [k \in Lanes |-> IF off + k <= Len(s) THEN s[off + k] ELSE g]

\* offsets_avx2_ps::<CHUNK_0>, ::<CHUNK_1> (and offsets_avx512_pd) followed by
\* the eight loads x1..x8: register j is read at ptr + 8 * (j - 1).
LoadDense(s, off, g) == [j \in 1..8 |-> Load(s, off + LANES * (j - 1), g)]

\* The eight lanewise updates acc_j = op(acc_j, x_j) of one dense block.
MaxBlock(ac, x) == [j \in 1..8 |-> MaxPs(ac[j], x[j])]

\* sum_x64_block, given the eight loaded registers.
\* The block update that leaves the eighth accumulator out.
SumBlock_SkipsAcc8(ac, x) == [j \in 1..8 |-> IF j = 8 THEN ac[j] ELSE AddPd(ac[j], x[j])]

SumBlock(ac, x) == [j \in 1..8 |-> AddPd(ac[j], x[j])]

\* The pairwise merge acc1..acc8 -> acc1 that ends the max kernels.
\* The pairwise merge without the eighth accumulator.
ReduceMax_DropsAcc8(ac) ==
    LET a1 == MaxPs(ac[1], ac[2])
        a3 == MaxPs(ac[3], ac[4])
        a5 == MaxPs(ac[5], ac[6])
        b1 == MaxPs(a1, a3)
        b5 == MaxPs(a5, ac[7])
    IN  MaxPs(b1, b5)

ReduceMax(ac) ==
    LET a1 == MaxPs(ac[1], ac[2])
        a3 == MaxPs(ac[3], ac[4])
        a5 == MaxPs(ac[5], ac[6])
        a7 == MaxPs(ac[7], ac[8])
        b1 == MaxPs(a1, a3)
        b5 == MaxPs(a5, a7)
    IN  MaxPs(b1, b5)

\* for x in unpacked { max = max.max(x) } from lane k on.
RECURSIVE FoldUnpacked(_, _, _)
FoldUnpacked(reg, k, m) ==
    IF k > LANES THEN m ELSE FoldUnpacked(reg, k + 1, F32Max(m, reg[k]))

\* for n in from..to { max = max.max(*arr.get_unchecked(n)) }
RECURSIVE FoldScalarMax(_, _, _, _)
FoldScalarMax(s, from, to, m) ==
    IF from >= to THEN m ELSE FoldScalarMax(s, from + 1, to, F32Max(m, s[from + 1]))

\* x.iter().fold(f32::NEG_INFINITY, |acc, v| acc.max(*v)): f32::max skips
\* NaNs, so the fold is the largest non-NaN element, or the start value.
FoldMaxIter(s) ==
    LET S == {s[n] : n \in 1..Len(s)} \ {NAN}
    IN  IF S = {} THEN NEG_INFINITY ELSE CHOOSE x \in S : \A y \in S : y <= x

Accs(v) == [j \in 1..8 |-> Set1(v)]

\* vec![0.0; n]
Zeros(n) == [k \in 1..n |-> 0]

(***************************************************************************)
(* f32_xconst_avx2_nofma_max_horizontal::<DIMS>(arr)                        *)
(***************************************************************************)
XconstMaxH == "f32_xconst_avx2_nofma_max_horizontal"

XconstMaxH_Enter ==
    /\ pc = "enter" /\ kernel = XconstMaxH
    /\ IF debug /\ (Len(a) # DIMS \/ DIMS % BLOCK # 0) THEN
           /\ pc' = "panic_debug"
           /\ UNCHANGED <<i, acc>>
       ELSE
           /\ acc' = Accs(NEG_INFINITY)
           /\ i' = 0
           /\ pc' = "dense"
    /\ UNCHANGED <<callVars, result, probes, shims, kernel, max, results, ret, oob, trace, prev>>

XconstMaxH_Dense ==
    /\ pc = "dense" /\ kernel = XconstMaxH
    /\ IF i < DIMS THEN
           \E o \in ReadOutcomes(a, i, BLOCK) :
               IF o[1] = "fault" THEN
                   /\ pc' = "fault"
                   /\ oob' = TRUE
                   /\ UNCHANGED <<i, acc, trace>>
               ELSE
                   /\ acc' = MaxBlock(acc, LoadDense(a, i, o[2]))
                   /\ oob' = (oob \/ o[1] = "read")
                   /\ trace' = Append(trace, <<"dense", i>>)
                   /\ i' = i + BLOCK
                   /\ pc' = "dense"
       ELSE
           /\ pc' = "reduce"
           /\ UNCHANGED <<i, acc, oob, trace>>
    /\ UNCHANGED <<callVars, result, probes, shims, kernel, max, results, ret, prev>>

XconstMaxH_Reduce ==
    /\ pc = "reduce" /\ kernel = XconstMaxH
    /\ ret' = FoldUnpacked(ReduceMax(acc), 1, NEG_INFINITY)
    /\ trace' = Append(trace, <<"fold", 0>>)
    /\ pc' = "done"
    /\ UNCHANGED <<callVars, result, probes, shims, kernel, i, acc, max, results, oob, prev>>

(***************************************************************************)
(* f32_xany_avx2_nofma_max_horizontal(arr)                                  *)
(***************************************************************************)
XanyMaxH == "f32_xany_avx2_nofma_max_horizontal"

\* let offset_from = len % 64;
OffsetFrom(len) == len % BLOCK

\* No scalar tail: the register loop runs to the end of the slice.
TailOf_Zero(len) == 0

\* let tail = offset_from % 8;
TailOf(len) == OffsetFrom(len) % LANES

\* The scalar maximum and the accumulators starting at zero.
\* The scalar maximum kept in a static: only the first call initialises it.
XanyMaxH_Enter_KeepsMax ==
    /\ pc = "enter" /\ kernel = XanyMaxH
    /\ max' = IF calls = <<>> THEN NEG_INFINITY ELSE max
    /\ acc' = Accs(NEG_INFINITY)
    /\ i' = 0
    /\ pc' = "dense"
    /\ UNCHANGED <<callVars, result, probes, shims, kernel, results, ret, oob, trace, prev>>

XanyMaxH_Enter_ZeroMax ==
    /\ pc = "enter" /\ kernel = XanyMaxH
    /\ max' = 0
    /\ acc' = Accs(0)
    /\ i' = 0
    /\ pc' = "dense"
    /\ UNCHANGED <<callVars, result, probes, shims, kernel, results, ret, oob, trace, prev>>

XanyMaxH_Enter ==
    /\ pc = "enter" /\ kernel = XanyMaxH
    /\ max' = NEG_INFINITY
    /\ acc' = Accs(NEG_INFINITY)
    /\ i' = 0
    /\ pc' = "dense"
    /\ UNCHANGED <<callVars, result, probes, shims, kernel, results, ret, oob, trace, prev>>

XanyMaxH_Dense ==
    /\ pc = "dense" /\ kernel = XanyMaxH
    /\ IF i < Len(a) - OffsetFrom(Len(a)) THEN
           \E o \in ReadOutcomes(a, i, BLOCK) :
               IF o[1] = "fault" THEN
                   /\ pc' = "fault"
                   /\ oob' = TRUE
                   /\ UNCHANGED <<i, acc, trace>>
               ELSE
                   /\ acc' = MaxBlock(acc, LoadDense(a, i, o[2]))
                   /\ oob' = (oob \/ o[1] = "read")
                   /\ trace' = Append(trace, <<"dense", i>>)
                   /\ i' = i + BLOCK
                   /\ pc' = "dense"
       ELSE
           /\ pc' = IF OffsetFrom(Len(a)) # 0 THEN "regtail" ELSE "reduce"
           /\ UNCHANGED <<i, acc, oob, trace>>
    /\ UNCHANGED <<callVars, result, probes, shims, kernel, max, results, ret, prev>>

XanyMaxH_RegTail ==
    /\ pc = "regtail" /\ kernel = XanyMaxH
    /\ IF i < Len(a) - TailOf(Len(a)) THEN
           \E o \in ReadOutcomes(a, i, LANES) :
               IF o[1] = "fault" THEN
                   /\ pc' = "fault"
                   /\ oob' = TRUE
                   /\ UNCHANGED <<i, acc, trace>>
               ELSE
                   /\ acc' = [acc EXCEPT ![1] = MaxPs(acc[1], Load(a, i, o[2]))]
                   /\ oob' = (oob \/ o[1] = "read")
                   /\ trace' = Append(trace, <<"reg", i>>)
                   /\ i' = i + LANES
                   /\ pc' = "regtail"
       ELSE
           /\ pc' = "scalar"
           /\ UNCHANGED <<i, acc, oob, trace>>
    /\ UNCHANGED <<callVars, result, probes, shims, kernel, max, results, ret, prev>>

XanyMaxH_Scalar ==
    /\ pc = "scalar" /\ kernel = XanyMaxH
    /\ max' = FoldScalarMax(a, i, Len(a), max)
    /\ trace' = Append(trace, <<"scalar", i>>)
    /\ pc' = "reduce"
    /\ UNCHANGED <<callVars, result, probes, shims, kernel, i, acc, results, ret, oob, prev>>

XanyMaxH_Reduce ==
    /\ pc = "reduce" /\ kernel = XanyMaxH
    /\ ret' = FoldUnpacked(ReduceMax(acc), 1, max)
    /\ trace' = Append(trace, <<"fold", 0>>)
    /\ pc' = "done"
    /\ UNCHANGED <<callVars, result, probes, shims, kernel, i, acc, max, results, oob, prev>>

(***************************************************************************)
(* Helpers shared by the vertical (matrix) kernels.                        *)
(***************************************************************************)
\* Every row holds the n elements at off.
RowsInBounds(rows, off, n) == \A m \in 1..Len(rows) : InBounds(rows[m], off, n)

RowReadOutcomes(rows, off, n) ==
    IF RowsInBounds(rows, off, n) THEN {<<"ok", 0>>}
    ELSE {<<"fault", 0>>} \cup {<<"read", g>> : g \in Garbage}

\* for m in 0..matrix.len() { load x1..x8 at arr.add(i); acc_j = max(acc_j, x_j) }
RECURSIVE MaxRowsDense(_, _, _, _, _)
MaxRowsDense(rows, m, off, g, ac) ==
    IF m > Len(rows) THEN ac
    ELSE MaxRowsDense(rows, m + 1, off, g, MaxBlock(ac, LoadDense(rows[m], off, g)))

\* for m in 0..matrix.len() { acc = _mm256_max_ps(acc, _mm256_loadu_ps(arr_ptr.add(i))) }
RECURSIVE MaxRowsReg(_, _, _, _, _)
MaxRowsReg(rows, m, off, g, reg) ==
    IF m > Len(rows) THEN reg
    ELSE MaxRowsReg(rows, m + 1, off, g, MaxPs(reg, Load(rows[m], off, g)))

\* *arr.get_unchecked(n)
GetUnchecked(s, n, g) == IF n + 1 <= Len(s) THEN s[n + 1] ELSE g

\* for m in 0..matrix.len() { max = max.max(*arr.get_unchecked(n)) }
RECURSIVE MaxRowsScalar(_, _, _, _, _)
MaxRowsScalar(rows, m, n, g, mx) ==
    IF m > Len(rows) THEN mx
    ELSE MaxRowsScalar(rows, m + 1, n, g, F32Max(mx, GetUnchecked(rows[m], n, g)))

\* mem::transmute::<[__m256; 8], [f32; 64]>(merged): element e of the block.
\* Lane and register swapped.
Merged_Transposed(ac, e) == ac[(e % LANES) + 1][(e \div LANES) + 1]

Merged(ac, e) == ac[(e \div LANES) + 1][(e % LANES) + 1]

\* ptr::copy_nonoverlapping(result.as_ptr(), out_ptr.add(off), 64), as far as
\* the destination reaches.
WriteBlock(out, off, ac) ==
    [n \in 1..Len(out) |->
        IF off < n /\ n <= off + BLOCK THEN Merged(ac, n - 1 - off) ELSE out[n]]

\* copy_avx2_ps_register_to(out_ptr.add(off), reg): the 8 lanes of reg.
WriteReg(out, off, reg) ==
    [n \in 1..Len(out) |->
        IF off < n /\ n <= off + LANES THEN reg[n - off] ELSE out[n]]

\* Some row's length differs from the expected one (debug_assert_eq!(arr.len(), len)).
RowLenMismatch(rows, len) == \E m \in 1..Len(rows) : Len(rows[m]) # len

(***************************************************************************)
(* f32_xconst_avx2_nofma_max_vertical::<DIMS>(matrix)                       *)
(***************************************************************************)
XconstMaxV == "f32_xconst_avx2_nofma_max_vertical"

XconstMaxV_Enter ==
    /\ pc = "enter" /\ kernel = XconstMaxV
    /\ IF debug /\ DIMS % BLOCK # 0 THEN
           /\ pc' = "panic_debug"
           /\ UNCHANGED <<i, results>>
       ELSE
           /\ results' = Zeros(DIMS)
           /\ i' = 0
           /\ pc' = "dense"
    /\ UNCHANGED <<callVars, result, probes, shims, kernel, acc, max, ret, oob, trace, prev>>

\* The accumulators of a block starting at 0.0, like those of the sum.
XconstMaxV_Dense_FromZero ==
    /\ pc = "dense" /\ kernel = XconstMaxV
    /\ IF i < DIMS THEN
           \E o \in RowReadOutcomes(matrix, i, BLOCK) :
               IF o[1] = "fault" THEN
                   /\ pc' = "fault"
                   /\ oob' = TRUE
                   /\ UNCHANGED <<i, acc, results, trace>>
               ELSE
                   /\ acc' = MaxRowsDense(matrix, 1, i, o[2], Accs(0))
                   /\ results' = WriteBlock(results, i, acc')
                   /\ oob' = (oob \/ o[1] = "read" \/ ~InBounds(results, i, BLOCK))
                   /\ trace' = Append(trace, <<"dense", i>>)
                   /\ i' = i + BLOCK
                   /\ pc' = "dense"
       ELSE
           /\ pc' = "done"
           /\ UNCHANGED <<i, acc, results, oob, trace>>
    /\ UNCHANGED <<callVars, result, probes, shims, kernel, max, ret, prev>>

XconstMaxV_Dense ==
    /\ pc = "dense" /\ kernel = XconstMaxV
    /\ IF i < DIMS THEN
           \E o \in RowReadOutcomes(matrix, i, BLOCK) :
               IF o[1] = "fault" THEN
                   /\ pc' = "fault"
                   /\ oob' = TRUE
                   /\ UNCHANGED <<i, acc, results, trace>>
               ELSE
                   /\ acc' = MaxRowsDense(matrix, 1, i, o[2], Accs(NEG_INFINITY))
                   /\ results' = WriteBlock(results, i, acc')
                   /\ oob' = (oob \/ o[1] = "read" \/ ~InBounds(results, i, BLOCK))
                   /\ trace' = Append(trace, <<"dense", i>>)
                   /\ i' = i + BLOCK
                   /\ pc' = "dense"
       ELSE
           /\ pc' = "done"
           /\ UNCHANGED <<i, acc, results, oob, trace>>
    /\ UNCHANGED <<callVars, result, probes, shims, kernel, max, ret, prev>>

(***************************************************************************)
(* f32_xany_avx2_nofma_max_vertical(matrix)                                 *)
(***************************************************************************)
XanyMaxV == "f32_xany_avx2_nofma_max_vertical"

\* let len = matrix[0].len();
RowLen == Len(matrix[1])

\* An empty matrix taken as a matrix of empty rows: an empty vector comes back.
XanyMaxV_Enter_EmptyIsEmpty ==
    /\ pc = "enter" /\ kernel = XanyMaxV
    /\ IF Len(matrix) = 0 THEN
           /\ results' = <<>>
           /\ i' = 0
           /\ pc' = "done"
       ELSE
           /\ results' = Zeros(RowLen)
           /\ i' = 0
           /\ pc' = "dense"
    /\ UNCHANGED <<callVars, result, probes, shims, kernel, acc, max, ret, oob, trace, prev>>

XanyMaxV_Enter ==
    /\ pc = "enter" /\ kernel = XanyMaxV
    /\ IF Len(matrix) = 0 THEN
           /\ pc' = "panic_index"
           /\ UNCHANGED <<i, results>>
       ELSE
           /\ results' = Zeros(RowLen)
           /\ i' = 0
           /\ pc' = "dense"
    /\ UNCHANGED <<callVars, result, probes, shims, kernel, acc, max, ret, oob, trace, prev>>

\* The accumulators set up once, in front of the dense loop.
XanyMaxV_Dense_KeepsAcc ==
    /\ pc = "dense" /\ kernel = XanyMaxV
    /\ IF i < RowLen - OffsetFrom(RowLen) THEN
           IF debug /\ RowLenMismatch(matrix, RowLen) THEN
               /\ pc' = "panic_debug"
               /\ UNCHANGED <<i, acc, results, oob, trace>>
           ELSE
               \E o \in RowReadOutcomes(matrix, i, BLOCK) :
                   IF o[1] = "fault" THEN
                       /\ pc' = "fault"
                       /\ oob' = TRUE
                       /\ UNCHANGED <<i, acc, results, trace>>
                   ELSE
                       /\ acc' = MaxRowsDense(matrix, 1, i, o[2], IF i = 0 THEN Accs(NEG_INFINITY) ELSE acc)
                       /\ results' = WriteBlock(results, i, acc')
                       /\ oob' = (oob \/ o[1] = "read" \/ ~InBounds(results, i, BLOCK))
                       /\ trace' = Append(trace, <<"dense", i>>)
                       /\ i' = i + BLOCK
                       /\ pc' = "dense"
       ELSE
           /\ pc' = IF OffsetFrom(RowLen) # 0 THEN "regtail" ELSE "done"
           /\ UNCHANGED <<i, acc, results, oob, trace>>
    /\ UNCHANGED <<callVars, result, probes, shims, kernel, max, ret, prev>>

XanyMaxV_Dense ==
    /\ pc = "dense" /\ kernel = XanyMaxV
    /\ IF i < RowLen - OffsetFrom(RowLen) THEN
           IF debug /\ RowLenMismatch(matrix, RowLen) THEN
               /\ pc' = "panic_debug"
               /\ UNCHANGED <<i, acc, results, oob, trace>>
           ELSE
               \E o \in RowReadOutcomes(matrix, i, BLOCK) :
                   IF o[1] = "fault" THEN
                       /\ pc' = "fault"
                       /\ oob' = TRUE
                       /\ UNCHANGED <<i, acc, results, trace>>
                   ELSE
                       /\ acc' = MaxRowsDense(matrix, 1, i, o[2], Accs(NEG_INFINITY))
                       /\ results' = WriteBlock(results, i, acc')
                       /\ oob' = (oob \/ o[1] = "read" \/ ~InBounds(results, i, BLOCK))
                       /\ trace' = Append(trace, <<"dense", i>>)
                       /\ i' = i + BLOCK
                       /\ pc' = "dense"
       ELSE
           /\ pc' = IF OffsetFrom(RowLen) # 0 THEN "regtail" ELSE "done"
           /\ UNCHANGED <<i, acc, results, oob, trace>>
    /\ UNCHANGED <<callVars, result, probes, shims, kernel, max, ret, prev>>

XanyMaxV_RegTail ==
    /\ pc = "regtail" /\ kernel = XanyMaxV
    /\ IF i < RowLen - TailOf(RowLen) THEN
           IF debug /\ RowLenMismatch(matrix, RowLen) THEN
               /\ pc' = "panic_debug"
               /\ UNCHANGED <<i, acc, results, oob, trace>>
           ELSE
               \E o \in RowReadOutcomes(matrix, i, LANES) :
                   IF o[1] = "fault" THEN
                       /\ pc' = "fault"
                       /\ oob' = TRUE
                       /\ UNCHANGED <<i, acc, results, trace>>
                   ELSE
                       /\ acc' = <<MaxRowsReg(matrix, 1, i, o[2], Set1(NEG_INFINITY))>>
                       /\ results' = WriteReg(results, i, acc'[1])
                       /\ oob' = (oob \/ o[1] = "read" \/ ~InBounds(results, i, LANES))
                       /\ trace' = Append(trace, <<"reg", i>>)
                       /\ i' = i + LANES
                       /\ pc' = "regtail"
       ELSE
           /\ pc' = "scalar"
           /\ UNCHANGED <<i, acc, results, oob, trace>>
    /\ UNCHANGED <<callVars, result, probes, shims, kernel, max, ret, prev>>

XanyMaxV_Scalar ==
    /\ pc = "scalar" /\ kernel = XanyMaxV
    /\ IF debug /\ i < RowLen /\ RowLenMismatch(matrix, RowLen) THEN
           /\ pc' = "panic_debug"
           /\ UNCHANGED <<results, oob, trace>>
       ELSE
           \E o \in RowReadOutcomes(matrix, i, RowLen - i) :
               IF o[1] = "fault" THEN
                   /\ pc' = "fault"
                   /\ oob' = TRUE
                   /\ UNCHANGED <<results, trace>>
               ELSE
                   /\ results' = [n \in 1..Len(results) |->
                                     IF n > i THEN MaxRowsScalar(matrix, 1, n - 1, o[2], NEG_INFINITY)
                                     ELSE results[n]]
                   /\ oob' = (oob \/ o[1] = "read")
                   /\ trace' = Append(trace, <<"scalar", i>>)
                   /\ pc' = "done"
    /\ UNCHANGED <<callVars, result, probes, shims, kernel, i, acc, max, ret, prev>>

(***************************************************************************)
(* Helpers of the AVX-512 f64 sum kernels.                                 *)
(***************************************************************************)
\* load_one_variable_size_avx512_pd(ptr.add(off), n): the first min(n, 8)
\* lanes are read, the others are zero.
LoadMasked(s, off, n, g) ==
    [k \in Lanes |->
        IF k > Min(n, LANES) THEN 0
        ELSE IF off + k <= Len(s) THEN s[off + k] ELSE g]

\* copy_masked_avx512_pd_register_to(out_ptr.add(off), reg, n): the first
\* min(n, 8) lanes are stored.
WriteMasked(out, off, reg, n) ==
    [e \in 1..Len(out) |->
        IF off < e /\ e <= off + Min(n, LANES) THEN reg[e - off] ELSE out[e]]

\* The sum of the lanes of one register.
RECURSIVE ReduceAdd(_, _)
ReduceAdd(reg, k) ==
    IF k > LANES THEN 0 ELSE AddLane(reg[k], ReduceAdd(reg, k + 1))

\* sum_avx512_x8_pd(acc1, ..., acc8): pairwise merge, then the lanes' sum.
SumX8(ac) ==
    LET a1 == AddPd(ac[1], ac[2])
        a3 == AddPd(ac[3], ac[4])
        a5 == AddPd(ac[5], ac[6])
        a7 == AddPd(ac[7], ac[8])
        b1 == AddPd(a1, a3)
        b5 == AddPd(a5, a7)
    IN  ReduceAdd(AddPd(b1, b5), 1)

\* for m in 0..matrix.len() { sum_x64_block(arr.add(i), &mut acc1, ...) }
RECURSIVE SumRowsDense(_, _, _, _, _)
SumRowsDense(rows, m, off, g, ac) ==
    IF m > Len(rows) THEN ac
    ELSE SumRowsDense(rows, m + 1, off, g, SumBlock(ac, LoadDense(rows[m], off, g)))

\* for m in 0..matrix.len() { acc = _mm512_add_pd(acc, masked load at arr.add(i)) }
RECURSIVE SumRowsMasked(_, _, _, _, _, _)
\* The accumulator reset inside the loop over the rows.
SumRowsMasked_LastRowOnly(rows, m, off, n, g, reg) ==
    AddPd(Set1(0), LoadMasked(rows[Len(rows)], off, n, g))

SumRowsMasked(rows, m, off, n, g, reg) ==
    IF m > Len(rows) THEN reg
    ELSE SumRowsMasked(rows, m + 1, off, n, g, AddPd(reg, LoadMasked(rows[m], off, n, g)))

(***************************************************************************)
(* f64_xconst_avx512_nofma_sum_horizontal::<DIMS>(x)                        *)
(***************************************************************************)
XconstSumH == "f64_xconst_avx512_nofma_sum_horizontal"

XconstSumH_Enter ==
    /\ pc = "enter" /\ kernel = XconstSumH
    /\ IF debug /\ (DIMS % BLOCK # 0 \/ Len(a) # DIMS) THEN
           /\ pc' = "panic_debug"
           /\ UNCHANGED <<i, acc>>
       ELSE
           /\ acc' = Accs(0)
           /\ i' = 0
           /\ pc' = "dense"
    /\ UNCHANGED <<callVars, result, probes, shims, kernel, max, results, ret, oob, trace, prev>>

XconstSumH_Dense ==
    /\ pc = "dense" /\ kernel = XconstSumH
    /\ IF i < DIMS THEN
           \E o \in ReadOutcomes(a, i, BLOCK) :
               IF o[1] = "fault" THEN
                   /\ pc' = "fault"
                   /\ oob' = TRUE
                   /\ UNCHANGED <<i, acc, trace>>
               ELSE
                   /\ acc' = SumBlock(acc, LoadDense(a, i, o[2]))
                   /\ oob' = (oob \/ o[1] = "read")
                   /\ trace' = Append(trace, <<"dense", i>>)
                   /\ i' = i + BLOCK
                   /\ pc' = "dense"
       ELSE
           /\ pc' = "reduce"
           /\ UNCHANGED <<i, acc, oob, trace>>
    /\ UNCHANGED <<callVars, result, probes, shims, kernel, max, results, ret, prev>>

XconstSumH_Reduce ==
    /\ pc = "reduce" /\ kernel = XconstSumH
    /\ ret' = SumX8(acc)
    /\ trace' = Append(trace, <<"fold", 0>>)
    /\ pc' = "done"
    /\ UNCHANGED <<callVars, result, probes, shims, kernel, i, acc, max, results, oob, prev>>

(***************************************************************************)
(* f64_xany_avx512_nofma_sum_horizontal(x)                                  *)
(***************************************************************************)
XanySumH == "f64_xany_avx512_nofma_sum_horizontal"

\* The accumulators are zeroed by the first call only.
XanySumH_Enter_KeepsAcc ==
    /\ pc = "enter" /\ kernel = XanySumH
    /\ acc' = IF acc = <<>> THEN Accs(0) ELSE acc
    /\ i' = 0
    /\ pc' = "dense"
    /\ UNCHANGED <<callVars, result, probes, shims, kernel, max, results, ret, oob, trace, prev>>

XanySumH_Enter ==
    /\ pc = "enter" /\ kernel = XanySumH
    /\ acc' = Accs(0)
    /\ i' = 0
    /\ pc' = "dense"
    /\ UNCHANGED <<callVars, result, probes, shims, kernel, max, results, ret, oob, trace, prev>>

XanySumH_Dense ==
    /\ pc = "dense" /\ kernel = XanySumH
    /\ IF i < Len(a) - OffsetFrom(Len(a)) THEN
           \E o \in ReadOutcomes(a, i, BLOCK) :
               IF o[1] = "fault" THEN
                   /\ pc' = "fault"
                   /\ oob' = TRUE
                   /\ UNCHANGED <<i, acc, trace>>
               ELSE
                   /\ acc' = SumBlock(acc, LoadDense(a, i, o[2]))
                   /\ oob' = (oob \/ o[1] = "read")
                   /\ trace' = Append(trace, <<"dense", i>>)
                   /\ i' = i + BLOCK
                   /\ pc' = "dense"
       ELSE
           /\ pc' = "masked"
           /\ UNCHANGED <<i, acc, oob, trace>>
    /\ UNCHANGED <<callVars, result, probes, shims, kernel, max, results, ret, prev>>

\* The masked tail loop without its i += 8.
XanySumH_Masked_NoStep ==
    /\ pc = "masked" /\ kernel = XanySumH
    /\ IF i < Len(a) THEN
           \E o \in ReadOutcomes(a, i, Min(Len(a) - i, LANES)) :
               IF o[1] = "fault" THEN
                   /\ pc' = "fault"
                   /\ oob' = TRUE
                   /\ UNCHANGED <<i, acc, trace>>
               ELSE
                   /\ acc' = [acc EXCEPT ![1] = AddPd(acc[1], LoadMasked(a, i, Len(a) - i, o[2]))]
                   /\ oob' = (oob \/ o[1] = "read")
                   /\ trace' = Append(trace, <<"masked", i, Len(a) - i>>)
                   /\ i' = i
                   /\ pc' = "masked"
       ELSE
           /\ pc' = "reduce"
           /\ UNCHANGED <<i, acc, oob, trace>>
    /\ UNCHANGED <<callVars, result, probes, shims, kernel, max, results, ret, prev>>

XanySumH_Masked ==
    /\ pc = "masked" /\ kernel = XanySumH
    /\ IF i < Len(a) THEN
           \E o \in ReadOutcomes(a, i, Min(Len(a) - i, LANES)) :
               IF o[1] = "fault" THEN
                   /\ pc' = "fault"
                   /\ oob' = TRUE
                   /\ UNCHANGED <<i, acc, trace>>
               ELSE
                   /\ acc' = [acc EXCEPT ![1] = AddPd(acc[1], LoadMasked(a, i, Len(a) - i, o[2]))]
                   /\ oob' = (oob \/ o[1] = "read")
                   /\ trace' = Append(trace, <<"masked", i, Len(a) - i>>)
                   /\ i' = i + LANES
                   /\ pc' = "masked"
       ELSE
           /\ pc' = "reduce"
           /\ UNCHANGED <<i, acc, oob, trace>>
    /\ UNCHANGED <<callVars, result, probes, shims, kernel, max, results, ret, prev>>

XanySumH_Reduce ==
    /\ pc = "reduce" /\ kernel = XanySumH
    /\ ret' = SumX8(acc)
    /\ trace' = Append(trace, <<"fold", 0>>)
    /\ pc' = "done"
    /\ UNCHANGED <<callVars, result, probes, shims, kernel, i, acc, max, results, oob, prev>>

(***************************************************************************)
(* f64_xconst_avx512_nofma_sum_vertical::<DIMS>(matrix)                     *)
(***************************************************************************)
XconstSumV == "f64_xconst_avx512_nofma_sum_vertical"

XconstSumV_Enter ==
    /\ pc = "enter" /\ kernel = XconstSumV
    /\ IF debug /\ DIMS % BLOCK # 0 THEN
           /\ pc' = "panic_debug"
           /\ UNCHANGED <<i, results>>
       ELSE
           /\ results' = Zeros(DIMS)
           /\ i' = 0
           /\ pc' = "dense"
    /\ UNCHANGED <<callVars, result, probes, shims, kernel, acc, max, ret, oob, trace, prev>>

XconstSumV_Dense ==
    /\ pc = "dense" /\ kernel = XconstSumV
    /\ IF i < DIMS THEN
           IF debug /\ RowLenMismatch(matrix, DIMS) THEN
               /\ pc' = "panic_debug"
               /\ UNCHANGED <<i, acc, results, oob, trace>>
           ELSE
               \E o \in RowReadOutcomes(matrix, i, BLOCK) :
                   IF o[1] = "fault" THEN
                       /\ pc' = "fault"
                       /\ oob' = TRUE
                       /\ UNCHANGED <<i, acc, results, trace>>
                   ELSE
                       /\ acc' = SumRowsDense(matrix, 1, i, o[2], Accs(0))
                       /\ results' = WriteBlock(results, i, acc')
                       /\ oob' = (oob \/ o[1] = "read" \/ ~InBounds(results, i, BLOCK))
                       /\ trace' = Append(trace, <<"dense", i>>)
                       /\ i' = i + BLOCK
                       /\ pc' = "dense"
       ELSE
           /\ pc' = "done"
           /\ UNCHANGED <<i, acc, results, oob, trace>>
    /\ UNCHANGED <<callVars, result, probes, shims, kernel, max, ret, prev>>

(***************************************************************************)
(* f64_xany_avx512_nofma_sum_vertical(matrix)                               *)
(***************************************************************************)
XanySumV == "f64_xany_avx512_nofma_sum_vertical"

XanySumV_Enter ==
    /\ pc = "enter" /\ kernel = XanySumV
    /\ IF Len(matrix) = 0 THEN
           /\ pc' = "panic_index"
           /\ UNCHANGED <<i, results>>
       ELSE
           /\ results' = Zeros(RowLen)
           /\ i' = 0
           /\ pc' = "dense"
    /\ UNCHANGED <<callVars, result, probes, shims, kernel, acc, max, ret, oob, trace, prev>>

XanySumV_Dense ==
    /\ pc = "dense" /\ kernel = XanySumV
    /\ IF i < RowLen - OffsetFrom(RowLen) THEN
           IF debug /\ RowLenMismatch(matrix, RowLen) THEN
               /\ pc' = "panic_debug"
               /\ UNCHANGED <<i, acc, results, oob, trace>>
           ELSE
               \E o \in RowReadOutcomes(matrix, i, BLOCK) :
                   IF o[1] = "fault" THEN
                       /\ pc' = "fault"
                       /\ oob' = TRUE
                       /\ UNCHANGED <<i, acc, results, trace>>
                   ELSE
                       /\ acc' = SumRowsDense(matrix, 1, i, o[2], Accs(0))
                       /\ results' = WriteBlock(results, i, acc')
                       /\ oob' = (oob \/ o[1] = "read" \/ ~InBounds(results, i, BLOCK))
                       /\ trace' = Append(trace, <<"dense", i>>)
                       /\ i' = i + BLOCK
                       /\ pc' = "dense"
       ELSE
           /\ pc' = "masked"
           /\ UNCHANGED <<i, acc, results, oob, trace>>
    /\ UNCHANGED <<callVars, result, probes, shims, kernel, max, ret, prev>>

\* The tail handled with whole registers: every load and store is told 8.
XanySumV_Masked_WholeRegister ==
    /\ pc = "masked" /\ kernel = XanySumV
    /\ IF i < RowLen THEN
           IF debug /\ RowLenMismatch(matrix, RowLen) THEN
               /\ pc' = "panic_debug"
               /\ UNCHANGED <<i, acc, results, oob, trace>>
           ELSE
               \E o \in RowReadOutcomes(matrix, i, LANES) :
                   IF o[1] = "fault" THEN
                       /\ pc' = "fault"
                       /\ oob' = TRUE
                       /\ UNCHANGED <<i, acc, results, trace>>
                   ELSE
                       /\ acc' = <<SumRowsMasked(matrix, 1, i, LANES, o[2], Set1(0))>>
                       /\ results' = WriteMasked(results, i, acc'[1], LANES)
                       /\ oob' = (oob \/ o[1] = "read"
                                      \/ ~InBounds(results, i, LANES))
                       /\ trace' = Append(trace, <<"masked", i, LANES>>)
                       /\ i' = i + LANES
                       /\ pc' = "masked"
       ELSE
           /\ pc' = "done"
           /\ UNCHANGED <<i, acc, results, oob, trace>>
    /\ UNCHANGED <<callVars, result, probes, shims, kernel, max, ret, prev>>

XanySumV_Masked ==
    /\ pc = "masked" /\ kernel = XanySumV
    /\ IF i < RowLen THEN
           IF debug /\ RowLenMismatch(matrix, RowLen) THEN
               /\ pc' = "panic_debug"
               /\ UNCHANGED <<i, acc, results, oob, trace>>
           ELSE
               \E o \in RowReadOutcomes(matrix, i, Min(RowLen - i, LANES)) :
                   IF o[1] = "fault" THEN
                       /\ pc' = "fault"
                       /\ oob' = TRUE
                       /\ UNCHANGED <<i, acc, results, trace>>
                   ELSE
                       /\ acc' = <<SumRowsMasked(matrix, 1, i, RowLen - i, o[2], Set1(0))>>
                       /\ results' = WriteMasked(results, i, acc'[1], RowLen - i)
                       /\ oob' = (oob \/ o[1] = "read"
                                      \/ ~InBounds(results, i, Min(RowLen - i, LANES)))
                       /\ trace' = Append(trace, <<"masked", i, RowLen - i>>)
                       /\ i' = i + LANES
                       /\ pc' = "masked"
       ELSE
           /\ pc' = "done"
           /\ UNCHANGED <<i, acc, results, oob, trace>>
    /\ UNCHANGED <<callVars, result, probes, shims, kernel, max, ret, prev>>

(***************************************************************************)
(* The generic kernels behind the shims (the op modules of danger), as     *)
(* section 4.3 of the design describes them: a dense loop over blocks of   *)
(* eight registers, a loop over single registers, and a scalar tail        *)
(* through AutoMath (a masked register on AVX-512).                        *)
(***************************************************************************)
\* The element at Rust index e - 1 of s, or what lies behind the slice.
Fetch(s, e, g) == IF e <= Len(s) THEN s[e] ELSE g

\* The n elements a kernel that was told the length n reads from s.
Window(s, n, g) == [e \in 1..n |-> Fetch(s, e, g)]

\* R::filled(value), seen as the operand of every element.
Broadcast(v, n) == [e \in 1..n |-> v]

\* Whether element e of n is handled by a register operation.
InRegisterPhase(be, t, e, n) == be = "avx512" \/ e <= n - (n % LanesOf(be, t))

\* The operation applied to element e of n.
ElementOp(be, t, o, e, n, l1, l2) ==
    IF InRegisterPhase(be, t, e, n) THEN RegOp(be, t, o, l1, l2)
    ELSE FallbackOp(t, o, l1, l2)

\* result[e] = x[e] op y[e]: the first operand is always the element of a.
GenericElementwise(be, t, o, x, y) ==
    [e \in 1..Len(x) |-> ElementOp(be, t, o, e, Len(x), x[e], y[e])]

\* An integer division meets a zero divisor: the call panics.
DivPanics(t, o, y) == o = "div" /\ ~IsFloat(t) /\ \E e \in 1..Len(y) : y[e] = 0

\* Elements stored before the panic: the registers in front of the one that
\* holds the first zero divisor.
StoredBeforePanic(be, t, y) ==
    LET z == CHOOSE e \in 1..Len(y) : y[e] = 0 /\ \A d \in 1..(e - 1) : y[d] # 0
        L == IF InRegisterPhase(be, t, z, Len(y)) THEN LanesOf(be, t) ELSE 1
    IN  IF L = 1 THEN z - 1 ELSE ((z - 1) \div L) * L

\* The memory from result[0] on after the first n elements of out were
\* stored: a store past result.len() lands behind the slice.
Stored(res, out, n) ==
    [e \in 1..(IF n > Len(res) THEN n ELSE Len(res)) |-> IF e <= n THEN out[e] ELSE res[e]]

RECURSIVE AddRange(_, _, _, _)
\* The lanes lo + 1 .. hi of a register added up in the type t.
AddRange(t, reg, lo, hi) ==
    IF hi <= lo THEN 0
    ELSE IF hi = lo + 1 THEN reg[hi]
    ELSE MathOp(t, "add", AddRange(t, reg, lo, (lo + hi) \div 2),
                          AddRange(t, reg, (lo + hi) \div 2, hi))

\* R::sum_to_value(reg): vaddvq_* on Neon, the register itself on Fallback.
SumToValue(t, reg) == AddRange(t, reg, 0, Len(reg))

\* R::add on whole registers.
AddRegs(be, t, r1, r2) == [k \in 1..Len(r1) |-> RegOp(be, t, "add", r1[k], r2[k])]

RECURSIVE AddStrided(_, _, _, _, _, _)
\* R::add over the count elements s[first], s[first + step], ... that one
\* lane of one accumulator meets.  The additions of the model are
\* associative, so they are paired up to keep the evaluation shallow.
AddStrided(be, t, s, first, step, count) ==
    IF count <= 0 THEN 0
    ELSE IF count = 1 THEN RegOp(be, t, "add", 0, s[first])
    ELSE RegOp(be, t, "add",
               AddStrided(be, t, s, first, step, count \div 2),
               AddStrided(be, t, s, first + (count \div 2) * step, step, count - count \div 2))

\* Phase A: acc_j += load(s + i + (j - 1) * lanes) for j = 1..8, block by
\* block: lane k of accumulator j after the dense loop.
SumDense(be, t, s) ==
    [j \in 1..8 |->
        [k \in 1..LanesOf(be, t) |->
            AddStrided(be, t, s, (j - 1) * LanesOf(be, t) + k, 8 * LanesOf(be, t),
                       Len(s) \div (8 * LanesOf(be, t)))]]

\* Phase B: acc_1 += load(s + i), register by register, from at on.
SumRegisters(be, t, s, at, r1) ==
    [k \in 1..LanesOf(be, t) |->
        RegOp(be, t, "add", r1[k],
              AddStrided(be, t, s, at + k, LanesOf(be, t), (Len(s) - at) \div LanesOf(be, t)))]

\* Phase C: total = AutoMath::add(total, s[n]) for the elements from at on.
SumScalars(t, s, at, total) == MathOp(t, "add", total, AddRange(t, s, at, Len(s)))

\* A register that was computed before the statements that use it run.
Computed(reg) == reg = reg

\* The horizontal sum of s: eight zeroed accumulators, pairwise merge,
\* sum_to_value, plus the scalar tail, each computed in program order.
GenericSum(be, t, s) ==
    LET L == LanesOf(be, t)
        dense == SumDense(be, t, s)
        a1 == SumRegisters(be, t, s, Len(s) - (Len(s) % (8 * L)), dense[1])
        m12 == AddRegs(be, t, a1, dense[2])
        m34 == AddRegs(be, t, dense[3], dense[4])
        m56 == AddRegs(be, t, dense[5], dense[6])
        m78 == AddRegs(be, t, dense[7], dense[8])
        m == AddRegs(be, t, AddRegs(be, t, m12, m34), AddRegs(be, t, m56, m78))
        tail == SumScalars(t, s, Len(s) - (Len(s) % L), 0)
    IN  IF Computed(s) /\ Computed(dense) /\ Computed(a1) /\ Computed(m12) /\ Computed(m34)
           /\ Computed(m56) /\ Computed(m78) /\ Computed(m) /\ Computed(tail)
        THEN MathOp(t, "add", SumToValue(t, m), tail)
        ELSE 0

\* R::fmadd(l1, l2, acc) summed up: the dot product is the sum of the
\* products, the squared euclidean distance that of the squared differences.
GenericDot(be, t, x, y) ==
    GenericSum(be, t, [e \in 1..Len(x) |-> MathOp(t, "mul", x[e], y[e])])

GenericEuclidean(be, t, x, y) ==
    GenericSum(be, t, [e \in 1..Len(x) |->
        MathOp(t, "mul", MathOp(t, "sub", x[e], y[e]), MathOp(t, "sub", x[e], y[e]))])

\* The length the shim works with: the const generic, or the slice's length.
ShimLen == IF form = "xconst" THEN DIMS ELSE Len(a)

\* What the shim of a reduction returns on the inputs x and y.
ReductionOf(be, x, y) ==
    CASE op = "sum" -> GenericSum(be, ty, x)
      [] op = "dot" -> GenericDot(be, ty, x, y)
      [] op = "euclidean" -> GenericEuclidean(be, ty, x, y)
      [] OTHER -> FoldMaxIter(a)

\* The body of the shim the dispatcher called, for every shim but the two
\* hand written AVX2 kernels.
ShimBody ==
    /\ pc = "shim"
    /\ LET be == shims[Len(shims)]
           n == IF op = "max" /\ shape = "horizontal" THEN Len(a) ELSE ShimLen
       IN  \E g \in IF n > Len(a) THEN Garbage ELSE {0} :
           \E faults \in IF n > Len(a) THEN BOOLEAN ELSE {FALSE} :
               LET x == Window(a, n, g)
                   y == IF shape = "vector_x_value" THEN Broadcast(value, n) ELSE Window(b, n, g)
               IN  IF faults THEN
                       /\ pc' = "fault"
                       /\ oob' = TRUE
                       /\ UNCHANGED <<result, ret>>
                   ELSE IF shape \in {"horizontal", "distance"} THEN
                       /\ ret' = ReductionOf(be, x, y)
                       /\ oob' = (oob \/ n > Len(a))
                       /\ pc' = "done"
                       /\ UNCHANGED result
                   ELSE IF DivPanics(ty, op, y) THEN
                       /\ result' = Stored(result, GenericElementwise(be, ty, op, x, y),
                                           StoredBeforePanic(be, ty, y))
                       /\ oob' = (oob \/ n > Len(a))
                       /\ pc' = "panic_div"
                       /\ UNCHANGED ret
                   ELSE
                       /\ result' = Stored(result, GenericElementwise(be, ty, op, x, y), n)
                       /\ oob' = (oob \/ n > Len(a))
                       /\ pc' = "done"
                       /\ UNCHANGED ret
    /\ UNCHANGED <<callVars, probes, shims, kernel, i, acc, max, results, trace, prev>>

(***************************************************************************)
(* Calls through the safe entry points.                                    *)
(***************************************************************************)
InitDispatch ==
    /\ pc = "call"
    /\ shape \in Shapes
    /\ form \in {"xconst", "xany"}
    /\ DIMS \in IF form = "xany" THEN {0}
                ELSE IF shape = "horizontal" THEN HorizDims ELSE ElemDims
    /\ value = IF shape = "vector_x_value" THEN 1 ELSE 0
    /\ a \in {Plain(n) : n \in IF shape = "horizontal" THEN HorizLens ELSE ElemLens}
    /\ b \in IF shape \in {"vector_x_vector", "vertical"}
             THEN {Plain(n) : n \in ElemLens} ELSE {<<>>}
    /\ result \in IF shape = "horizontal" THEN {<<>>} ELSE {Zeros(n) : n \in ElemLens}
    /\ result0 = result
    /\ arch \in Archs
    /\ nightly \in BOOLEAN
    /\ debug \in BOOLEAN
    /\ host \in Hosts(arch)
    /\ probes = <<>>
    /\ shims = <<>>
    /\ kernel = ""
    /\ matrix = <<>>
    /\ i = 0
    /\ acc = <<>>
    /\ max = 0
    /\ results = <<>>
    /\ ret = 0
    /\ oob = FALSE
    /\ trace = <<>>
    /\ prev = <<>>
    /\ op = IF shape \in {"horizontal", "vertical"} THEN "max" ELSE "add"
    /\ ty = "f32"
    /\ calls = <<>>
    /\ mem = <<>>
    /\ threads = <<>>

NextDispatch ==
    \/ AssertShapes
    \/ ProbeAvx512
    \/ ProbeAvx2
    \/ ProbeNeon
    \/ CallFallback
    \/ ShimBody
    \/ XconstMaxH_Enter
    \/ XconstMaxH_Dense
    \/ XconstMaxH_Reduce
    \/ XanyMaxH_Enter
    \/ XanyMaxH_Dense
    \/ XanyMaxH_RegTail
    \/ XanyMaxH_Scalar
    \/ XanyMaxH_Reduce

SpecDispatch == InitDispatch /\ [][NextDispatch]_vars

(***************************************************************************)
(* Calls of the arithmetic, two-vector vertical, sum and distance entry    *)
(* points for every element type, on one host per backend.                 *)
(***************************************************************************)
\* Largest rotation of the value pool a sample vector starts at.
MaxShift == 1

\* One platform per shim the dispatcher can choose.
Platforms ==
    {[arch |-> "x86_64", nightly |-> TRUE,
      host |-> [avx512f |-> TRUE, avx2 |-> TRUE, neon |-> FALSE]],
     [arch |-> "x86_64", nightly |-> FALSE,
      host |-> [avx512f |-> TRUE, avx2 |-> TRUE, neon |-> FALSE]],
     [arch |-> "aarch64", nightly |-> FALSE,
      host |-> [avx512f |-> FALSE, avx2 |-> FALSE, neon |-> TRUE]],
     [arch |-> "other", nightly |-> FALSE,
      host |-> [avx512f |-> FALSE, avx2 |-> FALSE, neon |-> FALSE]]}

ArithShapes == {"vector_x_value", "vector_x_vector", "vertical", "horizontal", "distance"}

OpsOf(sh) ==
    CASE sh \in {"vector_x_value", "vector_x_vector"} -> {"add", "sub", "mul", "div"}
      [] sh = "vertical" -> {"max", "min"}
      [] sh = "horizontal" -> {"sum"}
      [] OTHER -> {"dot", "euclidean"}

\* Below one register, a few registers, and past one dense block of the
\* narrow backends (Fallback: block of 8; Neon i8: register of 16, block of 128).
ArithLens == {1, 3, 16 + 1, 128 + 2}

\* Values of the first input: the extremes of the integer types are among them.
Pool(t, o) ==
    CASE t = "i8" -> <<-128, -7, -1, 0, 3, 100, 127>>
      [] t = "u8" -> <<0, 1, 3, 100, 200, 255>>
      [] OTHER -> IF o \in {"max", "min"} THEN <<-6, NAN, 2, -1, 8>> ELSE <<-6, -1, 0, 2, 4, 8>>

\* Values of the second input: no zero among them.
PoolB(t, o) ==
    CASE t = "i8" -> <<2, -1, 5, -128, 127, 10>>
      [] t = "u8" -> <<2, 5, 1, 255, 10>>
      [] OTHER -> IF o \in {"max", "min"} THEN <<2, -6, NAN, 8, -1>> ELSE <<2, -1, 4>>

\* Scalar operands: the units of the identity laws and values that overflow.
Values(t) == IF t = "u8" THEN {0, 1, 2, 100, 255} ELSE {0, 1, 2, 100, -1}

\* The pool repeated over len elements, starting at its element sh.
SampleOf(pool, len, sh) == [e \in 1..len |-> pool[((e - 1 + sh) % Len(pool)) + 1]]

InitArith ==
    /\ pc = "call"
    /\ shape \in ArithShapes
    /\ op \in OpsOf(shape)
    /\ ty \in Types
    /\ form \in {"xconst", "xany"}
    /\ a \in {SampleOf(Pool(ty, op), n, sh) : n \in ArithLens, sh \in 0..MaxShift}
    /\ DIMS \in IF form = "xany" THEN {0}
                ELSE IF Len(a) <= 3 THEN {Len(a), Len(a) + 2} ELSE {Len(a)}
    /\ value \in IF shape = "vector_x_value" THEN Values(ty) ELSE {0}
    /\ b \in IF shape = "vector_x_value" \/ shape = "horizontal" THEN {<<>>}
             ELSE {SampleOf(PoolB(ty, op), Len(a), sh) : sh \in 0..MaxShift}
                  \cup {Zeros(Len(a)), a}
    /\ result = IF shape \in {"horizontal", "distance"} THEN <<>> ELSE Zeros(Len(a))
    /\ result0 = result
    /\ \E p \in Platforms :
           /\ arch = p.arch
           /\ nightly = p.nightly
           /\ host = p.host
    /\ debug = FALSE
    /\ probes = <<>>
    /\ shims = <<>>
    /\ kernel = ""
    /\ matrix = <<>>
    /\ i = 0
    /\ acc = <<>>
    /\ max = 0
    /\ results = <<>>
    /\ ret = 0
    /\ oob = FALSE
    /\ trace = <<>>
    /\ prev = <<>>
    /\ calls = <<>>
    /\ mem = <<>>
    /\ threads = <<>>

NextArith ==
    \/ AssertShapes
    \/ ProbeAvx512
    \/ ProbeAvx2
    \/ ProbeNeon
    \/ CallFallback
    \/ ShimBody

SpecArith == InitArith /\ [][NextArith]_vars

(***************************************************************************)
(* Sequences of calls of one entry point by one caller: the first call,    *)
(* a call on other inputs, then the first call's inputs again.             *)
(***************************************************************************)
\* Calls the caller makes after the first one.
MaxCalls == 2

\* The inputs and the outcome of the call that has just returned.
Returned ==
    [a |-> a, b |-> b, value |-> value, shim |-> shims[Len(shims)],
     result |-> result, ret |-> ret]

\* Another input of the same length and type.
Raised(s) == [e \in 1..Len(s) |-> IF s[e] = NAN THEN NAN ELSE s[e] + 1]

\* The caller starts the next call when a call has returned.  The second
\* call swaps the two input vectors (or takes another vector when there is
\* one input), later calls repeat the inputs of the first.  The result
\* buffer is passed again as the last call left it, and so is whatever the
\* last call left in registers and on the stack.
CallAgain ==
    /\ pc = "done" /\ ~oob
    /\ Len(calls) < MaxCalls
    /\ calls' = Append(calls, Returned)
    /\ a' = IF calls # <<>> THEN calls[1].a ELSE IF b = <<>> THEN Raised(a) ELSE b
    /\ b' = IF calls # <<>> THEN calls[1].b ELSE IF b = <<>> THEN b ELSE a
    /\ result0' = result
    /\ probes' = <<>>
    /\ shims' = <<>>
    /\ trace' = <<>>
    /\ kernel' = ""
    /\ pc' = "call"
    /\ UNCHANGED <<shape, form, DIMS, value, arch, nightly, debug, host, matrix, op, ty,
                   result, i, acc, max, results, ret, oob, prev, mem, threads>>

\* First calls: those of the dispatcher model (the f32 horizontal maximum
\* with its hand written AVX2 kernels among them), and any-dim calls of the
\* two-vector entry points of every type.
InitSequence ==
    \/ InitDispatch
    \/ /\ InitArith
       /\ form = "xany"
       /\ b # <<>>
       /\ Len(a) \in {1, 3, 16 + 1}

NextSequence ==
    \/ AssertShapes
    \/ ProbeAvx512
    \/ ProbeAvx2
    \/ ProbeNeon
    \/ CallFallback
    \/ ShimBody
    \/ XconstMaxH_Enter
    \/ XconstMaxH_Dense
    \/ XconstMaxH_Reduce
    \/ XanyMaxH_Enter
    \/ XanyMaxH_Dense
    \/ XanyMaxH_RegTail
    \/ XanyMaxH_Scalar
    \/ XanyMaxH_Reduce
    \/ CallAgain

SpecSequence == InitSequence /\ [][NextSequence]_vars

(***************************************************************************)
(* Direct calls of the kernels, as their tests make them: on a host with   *)
(* the kernel's CPU feature, with inputs that meet the kernel's safety     *)
(* contract.  A finished xconst call is followed by the xany call of the   *)
(* same operation on the same input.                                       *)
(***************************************************************************)
Kernels ==
    {XconstMaxH, XanyMaxH, XconstMaxV, XanyMaxV, XconstSumH, XanySumH, XconstSumV, XanySumV}

ConstKernels == {XconstMaxH, XconstMaxV, XconstSumH, XconstSumV}

HorizontalKernels == {XconstMaxH, XanyMaxH, XconstSumH, XanySumH}

MaxKernels == {XconstMaxH, XanyMaxH, XconstMaxV, XanyMaxV}

\* The any-dim kernel of the same operation.
XanyOf(k) ==
    CASE k = XconstMaxH -> XanyMaxH
      [] k = XconstMaxV -> XanyMaxV
      [] k = XconstSumH -> XanySumH
      [] OTHER -> XanySumV

\* Remainders modulo 64: none, a scalar tail only, one register only, two
\* registers and a scalar tail of 7.
Rems == {0, 1, LANES, 2 * LANES + 7}

AnyLens == {BLOCK * q + r : q \in 0..MaxBlocks, r \in Rems}

ConstLens == {BLOCK * q : q \in 1..MaxBlocks}

LensOf(k) == IF k \in ConstKernels THEN ConstLens ELSE AnyLens

\* Distances from the peak at which a NaN is placed (0: no NaN).
NanOffsOf(k) == IF k \in MaxKernels THEN {0, LANES, BLOCK} ELSE {0}

Slices(k) ==
    UNION {UNION {{Slice(len, p, no) : p \in {q \in 0..(len - 1) : no = 0 \/ q + no < len}}
                  : no \in NanOffsOf(k)} \cup (IF len = 0 THEN {<<>>} ELSE {})
           : len \in LensOf(k)}

\* R rows of length L.  pm = -1: R copies of the slice with its peak at pj;
\* otherwise row m is the pattern shifted by 3 m, the peak is at (pm, pj) and,
\* with nan, a NaN lies right below it at (pm + 1, pj).
Matrix(R, L, pm, pj, nan) ==
    [m \in 1..R |->
        [n \in 1..L |->
            IF pm = -1 THEN Slice(L, pj, 0)[n]
            ELSE IF m - 1 = pm /\ n - 1 = pj THEN PEAK
            ELSE IF nan /\ m - 1 = pm + 1 /\ n - 1 = pj THEN NAN
            ELSE Pattern(n - 1 + 3 * (m - 1))]]

\* Columns for the peak of a matrix: the first and last lane of the first and
\* last register of every block, and the last nine columns of the row.
PeakColumns(L) ==
    {p \in 0..(L - 1) : \/ p % BLOCK \in {0, LANES - 1, BLOCK - LANES, BLOCK - 1}
                        \/ p >= L - LANES - 1}

Matrices(k) ==
    UNION {UNION {UNION {UNION {{Matrix(R, L, pm, pj, nan) : pj \in PeakColumns(L)}
                                : nan \in IF k \in MaxKernels /\ pm >= 0 /\ pm + 1 < R
                                          THEN BOOLEAN ELSE {FALSE}}
                         : pm \in -1..(R - 1)} \cup (IF L = 0 THEN {[m \in 1..R |-> <<>>]} ELSE {})
                  : L \in LensOf(k)}
           : R \in 1..MaxRows}

InitKernel ==
    /\ pc = "enter"
    /\ shape = "direct"
    /\ kernel \in Kernels
    /\ form = IF kernel \in ConstKernels THEN "xconst" ELSE "xany"
    /\ a \in IF kernel \in HorizontalKernels THEN Slices(kernel) ELSE {<<>>}
    /\ matrix \in IF kernel \in HorizontalKernels THEN {<<>>} ELSE Matrices(kernel)
    /\ DIMS = IF kernel \notin ConstKernels THEN 0
              ELSE IF kernel \in HorizontalKernels THEN Len(a) ELSE Len(matrix[1])
    /\ value = 0
    /\ b = <<>>
    /\ result = <<>>
    /\ result0 = <<>>
    /\ arch = "x86_64"
    /\ nightly = TRUE
    /\ debug = TRUE
    /\ host = [avx512f |-> TRUE, avx2 |-> TRUE, neon |-> FALSE]
    /\ probes = <<>>
    /\ shims = <<>>
    /\ i = 0
    /\ acc = <<>>
    /\ max = 0
    /\ results = <<>>
    /\ ret = 0
    /\ oob = FALSE
    /\ trace = <<>>
    /\ prev = <<>>
    /\ op = IF kernel \in MaxKernels THEN "max" ELSE "sum"
    /\ ty = IF kernel \in MaxKernels THEN "f32" ELSE "f64"
    /\ calls = <<>>
    /\ mem = <<>>
    /\ threads = <<>>

\* The caller goes on to call the any-dim form on the same input.
NextCall ==
    /\ pc = "done" /\ shape = "direct"
    /\ form = "xconst" /\ prev = <<>>
    /\ prev' = <<[kernel |-> kernel, ret |-> ret, results |-> results, trace |-> trace]>>
    /\ kernel' = XanyOf(kernel)
    /\ form' = "xany"
    /\ pc' = "enter"
    /\ i' = 0
    /\ acc' = <<>>
    /\ max' = 0
    /\ results' = <<>>
    /\ ret' = 0
    /\ oob' = FALSE
    /\ trace' = <<>>
    /\ UNCHANGED <<shape, DIMS, value, a, b, result, result0, arch, nightly, debug, host,
                   matrix, probes, shims, op, ty, calls, mem, threads>>

NextKernel ==
    \/ XconstMaxH_Enter
    \/ XconstMaxH_Dense
    \/ XconstMaxH_Reduce
    \/ XanyMaxH_Enter
    \/ XanyMaxH_Dense
    \/ XanyMaxH_RegTail
    \/ XanyMaxH_Scalar
    \/ XanyMaxH_Reduce
    \/ XconstMaxV_Enter
    \/ XconstMaxV_Dense
    \/ XanyMaxV_Enter
    \/ XanyMaxV_Dense
    \/ XanyMaxV_RegTail
    \/ XanyMaxV_Scalar
    \/ XconstSumH_Enter
    \/ XconstSumH_Dense
    \/ XconstSumH_Reduce
    \/ XanySumH_Enter
    \/ XanySumH_Dense
    \/ XanySumH_Masked
    \/ XanySumH_Reduce
    \/ XconstSumV_Enter
    \/ XconstSumV_Dense
    \/ XanySumV_Enter
    \/ XanySumV_Dense
    \/ XanySumV_Masked
    \/ NextCall

SpecKernel == InitKernel /\ [][NextKernel]_vars

(***************************************************************************)
(* Direct calls on degenerate inputs and on inputs outside the kernels'    *)
(* contract: empty slices, matrices without rows, rows of different        *)
(* lengths, with and without debug assertions.                             *)
(***************************************************************************)
\* Row and slice lengths: nothing, a register and one element, a block, a
\* block and a register and one element.
EdgeLens == {0, LANES + 1, BLOCK, BLOCK + LANES + 1}

\* Matrices of 0..MaxRows rows, every row of a length of its own.
EdgeMatrices ==
    UNION {{[m \in 1..R |-> Plain(ls[m])] : ls \in [1..R -> EdgeLens]} : R \in 0..MaxRows}

InitEdge ==
    /\ pc = "enter"
    /\ shape = "direct"
    /\ kernel \in Kernels
    /\ form = IF kernel \in ConstKernels THEN "xconst" ELSE "xany"
    /\ a \in IF kernel \notin HorizontalKernels THEN {<<>>}
             ELSE IF kernel \in ConstKernels THEN {Plain(BLOCK)}
             ELSE {Plain(n) : n \in EdgeLens}
    /\ matrix \in IF kernel \in HorizontalKernels THEN {<<>>} ELSE EdgeMatrices
    /\ DIMS \in IF kernel \notin ConstKernels THEN {0}
                ELSE IF kernel \in HorizontalKernels THEN {Len(a)} ELSE {0, BLOCK}
    /\ value = 0
    /\ b = <<>>
    /\ result = <<>>
    /\ result0 = <<>>
    /\ arch = "x86_64"
    /\ nightly = TRUE
    /\ debug \in BOOLEAN
    /\ host = [avx512f |-> TRUE, avx2 |-> TRUE, neon |-> FALSE]
    /\ probes = <<>>
    /\ shims = <<>>
    /\ i = 0
    /\ acc = <<>>
    /\ max = 0
    /\ results = <<>>
    /\ ret = 0
    /\ oob = FALSE
    /\ trace = <<>>
    /\ prev = <<>>
    /\ op = IF kernel \in MaxKernels THEN "max" ELSE "sum"
    /\ ty = IF kernel \in MaxKernels THEN "f32" ELSE "f64"
    /\ calls = <<>>
    /\ mem = <<>>
    /\ threads = <<>>

SpecEdge == InitEdge /\ [][NextKernel]_vars

(***************************************************************************)
(* Properties of the dispatchers.                                          *)
(***************************************************************************)
Range(s) == {s[k] : k \in 1..Len(s)}

\* The call is past shim selection.
Dispatched == pc \notin {"call", "probe_avx512", "probe_avx2", "probe_neon", "fallback", "panic_shape"}

\* The first available candidate in the order AVX-512, AVX2, NEON, fallback.
FirstAvailable ==
    IF arch \in X86 /\ nightly /\ host.avx512f THEN "avx512"
    ELSE IF arch \in X86 /\ host.avx2 THEN "avx2"
    ELSE IF arch = "aarch64" /\ host.neon THEN "neon"
    ELSE "fallback"

\* C1: a call invokes at most one shim and, once past selection, exactly one: the
\* first available in the order AVX-512 (x86/x86_64 with nightly only), AVX2,
\* NEON, fallback; without nightly the AVX-512 shim is never invoked.
C1_FirstAvailableShim ==
    /\ Len(shims) <= 1
    /\ Dispatched => shims = <<FirstAvailable>>
    /\ ~nightly => "avx512" \notin Range(shims)

\* A host that reports avx512f, built without nightly, has taken the AVX2 shim.
C1_Witness ==
    /\ Dispatched
    /\ ~nightly /\ host.avx512f
    /\ shims = <<"avx2">>

\* C2: a CPU-specific shim is invoked only after the probe of its own feature
\* answered true in the same call, on a host that has the feature and a target
\* of the shim's architecture.
C2_ShimOnlyAfterItsProbe ==
    \A k \in 1..Len(shims) :
        /\ shims[k] = "avx512" =>
              arch \in X86 /\ host.avx512f /\ <<"avx512f", TRUE>> \in Range(probes)
        /\ shims[k] = "avx2" =>
              arch \in X86 /\ host.avx2 /\ <<"avx2", TRUE>> \in Range(probes)
        /\ shims[k] = "neon" =>
              arch = "aarch64" /\ host.neon /\ <<"neon", TRUE>> \in Range(probes)

\* A call has run the AVX-512 shim, its only probe the one of avx512f.
C2_Witness ==
    /\ shims = <<"avx512">>
    /\ probes = <<<<"avx512f", TRUE>>>>
    /\ pc = "done"

\* The lengths of the call disagree, as the claim lists them per entry point
\* (result0 is the result buffer as the caller passed it).
ShapeMismatch ==
    \/ shape = "vector_x_value" /\ Len(a) # Len(result0)
    \/ shape \in {"vector_x_vector", "vertical"} /\ (Len(a) # Len(b) \/ Len(a) # Len(result0))

\* C3: a call whose shapes mismatch halts at the assertion: it never gets past
\* it, makes no probe, invokes no shim and leaves result as it was.
C3_ShapeMismatchHalts ==
    ShapeMismatch =>
        /\ pc \in {"call", "panic_shape"}
        /\ probes = <<>>
        /\ shims = <<>>
        /\ result = result0

\* A vector-x-vector call with equal inputs and a result of another length halted.
C3_Witness ==
    /\ pc = "panic_shape"
    /\ shape = "vector_x_vector"
    /\ Len(a) = Len(b) /\ Len(a) # Len(result)

\* C4: an xconst entry point called with an input whose length is not DIMS
\* invokes no shim.
C4_ConstDimValidated ==
    (form = "xconst" /\ Len(a) # DIMS) => shims = <<>>

\* C5: a kernel entered through a safe xconst entry point (here with an input
\* of exactly DIMS elements) accesses no index outside its slice.
C5_KernelInBounds ==
    (form = "xconst" /\ Len(a) = DIMS /\ shims # <<>>) => ~oob

(***************************************************************************)
(* Properties of the kernels.  The references are those of the kernels'    *)
(* tests and documentation.                                                *)
(***************************************************************************)
Halts == {"fault", "panic_debug", "panic_index"}

NoNaN(s) == NAN \notin Range(s)

ColumnOf(rows, j) == [m \in 1..Len(rows) |-> rows[m][j]]

RECURSIVE SumRange(_, _, _)
\* total = total + x[i] over lo <= i < hi; exact on the values of the model,
\* so the order of the additions does not show.
SumRange(s, lo, hi) ==
    IF hi <= lo THEN 0
    ELSE IF hi = lo + 1 THEN s[hi]
    ELSE SumRange(s, lo, (lo + hi) \div 2) + SumRange(s, (lo + hi) \div 2, hi)

SumAll(s) == SumRange(s, 0, Len(s))

\* The safety contract of a horizontal kernel.
ValidSlice == form = "xconst" => (Len(a) = DIMS /\ DIMS % BLOCK = 0)

\* The safety contract of a vertical kernel.
ValidMatrix ==
    /\ Len(matrix) >= 1
    /\ ~RowLenMismatch(matrix, Len(matrix[1]))
    /\ form = "xconst" => (Len(matrix[1]) = DIMS /\ DIMS % BLOCK = 0)

MaxHDone == pc = "done" /\ kernel \in {XconstMaxH, XanyMaxH} /\ ValidSlice /\ Len(a) >= 1

MaxVDone == pc = "done" /\ kernel \in {XconstMaxV, XanyMaxV} /\ ValidMatrix

SumHDone == pc = "done" /\ kernel \in {XconstSumH, XanySumH} /\ ValidSlice /\ Len(a) >= 1

SumVDone == pc = "done" /\ kernel \in {XconstSumV, XanySumV} /\ ValidMatrix

\* C6 as stated: for every input of length N >= 1 the any-dim horizontal max,
\* and for every input of length DIMS (a multiple of 64) the const-dim one,
\* returns the left fold of f32::max from negative infinity over the input.
C6_MaxHorizontalEveryInput == MaxHDone => ret = FoldMaxIter(a)

\* C6, amended: for every input of length N >= 1 that holds no NaN, both
\* horizontal max kernels return the left fold of max from negative
\* infinity, the largest element, whatever N mod 64 and N mod 8 are; [x]
\* returns x.
C6_MaxHorizontalNaNFree ==
    (MaxHDone /\ NoNaN(a)) =>
        /\ ret = FoldMaxIter(a)
        /\ Len(a) = 1 => ret = a[1]

\* The any-dim kernel has run a dense block, two registers and a scalar tail
\* of seven, and returns the peak that was the last element.
C6_Witness ==
    /\ MaxHDone /\ kernel = XanyMaxH /\ NoNaN(a)
    /\ Len(a) = BLOCK + 2 * LANES + 7
    /\ a[Len(a)] = PEAK
    /\ ret = PEAK

\* C7 as stated: for every matrix of R >= 1 rows of one length L both
\* vertical max kernels return a vector of length L whose element j is the
\* maximum (the f32::max fold) of column j.
C7_MaxVerticalEveryMatrix ==
    MaxVDone =>
        /\ Len(results) = RowLen
        /\ \A j \in 1..RowLen : results[j] = FoldMaxIter(ColumnOf(matrix, j))

\* C7, amended: for every matrix of R >= 1 rows of one length L that holds
\* no NaN, both vertical max kernels return a vector of length exactly L
\* whose element j is the maximum of column j.
C7_MaxVerticalNaNFree ==
    (MaxVDone /\ \A m \in 1..Len(matrix) : NoNaN(matrix[m])) =>
        /\ Len(results) = RowLen
        /\ \A j \in 1..RowLen : results[j] = FoldMaxIter(ColumnOf(matrix, j))

\* Two rows of length 64 + 23 with the peak last in the second row.
C7_Witness ==
    /\ MaxVDone /\ kernel = XanyMaxV
    /\ Len(matrix) = 2 /\ RowLen = BLOCK + 2 * LANES + 7
    /\ \A m \in 1..2 : NoNaN(matrix[m])
    /\ matrix[2][RowLen] = PEAK /\ matrix[1][RowLen] # PEAK
    /\ results[RowLen] = PEAK
    /\ results[1] # PEAK

\* C8: for every input of length N >= 1 the any-dim horizontal sum, and for
\* every input of length DIMS (a multiple of 64) the const-dim one, returns
\* the sum of all elements, each counted once.
C8_SumHorizontal == SumHDone => ret = SumAll(a)

\* The any-dim sum over a dense block and a masked tail of 23.
C8_Witness ==
    /\ SumHDone /\ kernel = XanySumH
    /\ Len(a) = BLOCK + 2 * LANES + 7
    /\ a[Len(a)] = PEAK
    /\ ret = SumAll(a)
    /\ ret < PEAK * Len(a)

\* C9: for every matrix of R >= 1 rows of one length L both vertical sum
\* kernels return a vector of length L whose element j is the sum of column
\* j over the rows; R copies of one vector v give R times v.
C9_SumVertical ==
    SumVDone =>
        /\ Len(results) = RowLen
        /\ \A j \in 1..RowLen : results[j] = SumAll(ColumnOf(matrix, j))
        /\ (\A m \in 1..Len(matrix) : matrix[m] = matrix[1]) =>
               \A j \in 1..RowLen : results[j] = Len(matrix) * matrix[1][j]

\* Two copies of a vector of length 64 + 23 whose last element is the peak.
C9_Witness ==
    /\ SumVDone /\ kernel = XanySumV
    /\ Len(matrix) = 2 /\ matrix[1] = matrix[2]
    /\ RowLen = BLOCK + 2 * LANES + 7
    /\ matrix[1][RowLen] = PEAK
    /\ results[RowLen] = 2 * PEAK

\* The length of the input of the finished call.
InputLen == IF kernel \in HorizontalKernels THEN Len(a) ELSE RowLen

\* C10: on an input whose length is a multiple of 64, the any-dim form that
\* follows the const-dim form of the same operation does not halt, makes the
\* same sequence of accumulator updates and returns the same result.
C10_ConstAnyParity ==
    (prev # <<>> /\ InputLen % BLOCK = 0) =>
        /\ kernel = XanyOf(prev[1].kernel)
        /\ pc \notin Halts
        /\ pc = "done" =>
               /\ ret = prev[1].ret
               /\ results = prev[1].results
               /\ trace = prev[1].trace

\* Both forms of the horizontal max have gone over two blocks and folded.
C10_Witness ==
    /\ pc = "done" /\ prev # <<>>
    /\ kernel = XanyMaxH /\ prev[1].kernel = XconstMaxH
    /\ Len(a) = 2 * BLOCK
    /\ Len(trace) = 3 /\ trace = prev[1].trace
    /\ ret = PEAK /\ prev[1].ret = PEAK

(***************************************************************************)
(* A caller sums a vector, then its first n elements, then the rest:       *)
(* through f64_xany_avx512_nofma_sum_horizontal, and through the safe      *)
(* <T>_xany_sum_horizontal of every type on every backend.                 *)
(***************************************************************************)
\* Split points that put the parts into different phases of the kernel.
SplitPoints(N) == {n \in {1, LANES, BLOCK, BLOCK + LANES + 1, N - 1} : 0 < n /\ n < N}

InitSplit ==
    \/ /\ InitKernel
       /\ kernel = XanySumH
       /\ Len(a) >= 2
       /\ a[1] = PEAK \/ a[Len(a)] = PEAK
    \/ /\ InitArith
       /\ shape = "horizontal"
       /\ form = "xany"
       /\ Len(a) >= 2

\* The caller calls the same function on the first n elements of the
\* vector, and after that on the elements from n on.
CallPart ==
    /\ pc = "done" /\ ~oob
    /\ Len(calls) < 2
    /\ \E n \in IF calls = <<>> THEN SplitPoints(Len(a)) ELSE {0} :
           /\ calls' = Append(calls, [a |-> a, n |-> n, ret |-> ret])
           /\ a' = IF calls = <<>> THEN SubSeq(a, 1, n)
                   ELSE SubSeq(calls[1].a, calls[1].n + 1, Len(calls[1].a))
    /\ pc' = IF shape = "direct" THEN "enter" ELSE "call"
    /\ kernel' = IF shape = "direct" THEN kernel ELSE ""
    /\ probes' = <<>>
    /\ shims' = <<>>
    /\ trace' = <<>>
    /\ UNCHANGED <<shape, form, DIMS, value, b, result, result0, arch, nightly, debug, host,
                   matrix, op, ty, i, acc, max, results, ret, oob, prev, mem, threads>>

NextSplit ==
    \/ AssertShapes
    \/ ProbeAvx512
    \/ ProbeAvx2
    \/ ProbeNeon
    \/ CallFallback
    \/ ShimBody
    \/ XanySumH_Enter
    \/ XanySumH_Dense
    \/ XanySumH_Masked
    \/ XanySumH_Reduce
    \/ CallPart

SpecSplit == InitSplit /\ [][NextSplit]_vars

(***************************************************************************)
(* Two threads call any-dim entry points at the same time.  Both read the  *)
(* same inputs a and b; each has a result buffer of its own.  A call is a  *)
(* sequence of steps, one load and one store (or accumulation) per         *)
(* register or tail element, and the steps of the threads interleave.      *)
(* Memory: a at 0, b at n, the result of thread 1 at 2n, of thread 2 at 3n.*)
(***************************************************************************)
Tids == {1, 2}

\* Everything but the shared memory and the threads.
callerVars ==
    <<pc, shape, form, DIMS, value, a, b, result, result0, arch, nightly, debug,
      host, probes, shims, kernel, matrix, i, acc, max, results, ret, oob, trace, prev,
      op, ty, calls>>

\* The shim a dispatcher selects on the host: the first compiled branch
\* whose feature is detected, else the fallback.
ShimFor ==
    IF Avx512Compiled(arch, nightly) /\ Detected("avx512f") THEN "avx512"
    ELSE IF Avx2Compiled(arch) /\ Detected("avx2") THEN "avx2"
    ELSE IF NeonCompiled(arch) /\ Detected("neon") THEN "neon"
    ELSE "fallback"

\* R::load(mem.add(at)): the n lanes from address at on.
LoadReg(m, at, n) == [k \in 1..n |-> m[at + k]]

\* R::write with one lane more than the register holds.
StoreReg_ExtraLane(m, at, reg) ==
    [e \in 1..Len(m) |->
        IF e > at /\ e <= at + Len(reg) THEN reg[e - at]
        ELSE IF e = at + Len(reg) + 1 THEN reg[Len(reg)]
        ELSE m[e]]

\* R::write(mem.add(at), reg): the lanes of reg stored from address at on.
StoreReg(m, at, reg) ==
    [e \in 1..Len(m) |-> IF e > at /\ e <= at + Len(reg) THEN reg[e - at] ELSE m[e]]

\* The elements the step at index at of n handles: a register, the rest
\* under a mask (AVX-512), or one element of the scalar tail.
ChunkAt(be, t, at, n) ==
    IF be = "avx512" THEN (IF n - at < LanesOf(be, t) THEN n - at ELSE LanesOf(be, t))
    ELSE IF at < n - (n % LanesOf(be, t)) THEN LanesOf(be, t)
    ELSE 1

\* The calls of the two threads: thread 1 an element-wise call with a
\* scalar, thread 2 an element-wise call with b or a horizontal sum.
ThreadCalls(t) ==
    IF t = 1 THEN {[shape |-> "vector_x_value", op |-> o] : o \in {"add", "mul"}}
    ELSE {[shape |-> "vector_x_vector", op |-> "sub"], [shape |-> "horizontal", op |-> "sum"]}

InitThreads ==
    /\ pc = "threads"
    /\ shape = "concurrent"
    /\ form = "xany"
    /\ DIMS = 0
    /\ op = "add"
    /\ ty \in {"f32", "i8"}
    /\ a \in {SampleOf(Pool(ty, op), n, 0) : n \in {1, 5, 9}}
    /\ b = SampleOf(PoolB(ty, op), Len(a), 0)
    /\ value \in {2, 100}
    /\ \E p \in Platforms :
           /\ arch = p.arch
           /\ nightly = p.nightly
           /\ host = p.host
    /\ mem = a \o b \o Zeros(Len(a)) \o Zeros(Len(a))
    /\ threads \in [Tids -> UNION {ThreadCalls(t) : t \in Tids}]
    /\ \A t \in Tids : threads[t] \in ThreadCalls(t)
    /\ result = <<>>
    /\ result0 = <<>>
    /\ debug = FALSE
    /\ probes = <<>>
    /\ shims = <<>>
    /\ kernel = ""
    /\ matrix = <<>>
    /\ i = 0
    /\ acc = <<>>
    /\ max = 0
    /\ results = <<>>
    /\ ret = 0
    /\ oob = FALSE
    /\ trace = <<>>
    /\ prev = <<>>
    /\ calls = <<>>

\* Address of the result buffer of thread t.
ResultBase(t) == (t + 1) * Len(a)

\* The thread enters its entry point: the lengths are compared and the shim
\* is selected.
T_Dispatch(t) ==
    /\ DOMAIN threads[t] = {"shape", "op"}
    /\ threads' = [threads EXCEPT ![t] =
           [shape |-> threads[t].shape, op |-> threads[t].op,
            pc |-> IF ShapesOk(threads[t].shape, Len(a), Len(b), Len(a)) THEN "loop" ELSE "panic_shape",
            shim |-> ShimFor, at |-> 0, x |-> <<>>, y |-> <<>>, sum |-> 0, ret |-> 0]]
    /\ UNCHANGED <<callerVars, mem>>

Running(t, at) == "pc" \in DOMAIN threads[t] /\ threads[t].pc = at

\* Load the operands of the next register or tail element.
T_Load(t) ==
    /\ Running(t, "loop") /\ threads[t].at < Len(a)
    /\ LET n == ChunkAt(threads[t].shim, ty, threads[t].at, Len(a))
       IN  threads' = [threads EXCEPT
               ![t].x = LoadReg(mem, threads[t].at, n),
               ![t].y = IF threads[t].shape = "vector_x_value" THEN Broadcast(value, n)
                        ELSE IF threads[t].shape = "vector_x_vector"
                             THEN LoadReg(mem, Len(a) + threads[t].at, n)
                        ELSE <<>>,
               ![t].pc = IF threads[t].shape = "horizontal" THEN "accumulate" ELSE "store"]
    /\ UNCHANGED <<callerVars, mem>>

\* Apply the operation and store the lanes to the thread's result.
T_Store(t) ==
    /\ Running(t, "store")
    /\ mem' = StoreReg(mem, ResultBase(t) + threads[t].at,
                  [k \in 1..Len(threads[t].x) |->
                      ElementOp(threads[t].shim, ty, threads[t].op, threads[t].at + k, Len(a),
                                threads[t].x[k], threads[t].y[k])])
    /\ threads' = [threads EXCEPT ![t].at = @ + Len(threads[t].x), ![t].pc = "loop"]
    /\ UNCHANGED callerVars

\* Add the loaded lanes to the thread's accumulator.
T_Accumulate(t) ==
    /\ Running(t, "accumulate")
    /\ threads' = [threads EXCEPT
           ![t].sum = MathOp(ty, "add", @, SumToValue(ty, threads[t].x)),
           ![t].at = @ + Len(threads[t].x),
           ![t].pc = "loop"]
    /\ UNCHANGED <<callerVars, mem>>

\* The loops are over: the call returns.
T_Return(t) ==
    /\ Running(t, "loop") /\ threads[t].at >= Len(a)
    /\ threads' = [threads EXCEPT ![t].ret = threads[t].sum, ![t].pc = "done"]
    /\ UNCHANGED <<callerVars, mem>>

NextThreads ==
    \/ \E t \in Tids : T_Dispatch(t)
    \/ \E t \in Tids : T_Load(t)
    \/ \E t \in Tids : T_Store(t)
    \/ \E t \in Tids : T_Accumulate(t)
    \/ \E t \in Tids : T_Return(t)

SpecThreads == InitThreads /\ [][NextThreads]_vars

(***************************************************************************)
(* Properties of the arithmetic entry points.                              *)
(***************************************************************************)
\* x op y as the mathematical operation on whole numbers.
Exact(o, x, y) ==
    CASE o = "add" -> x + y
      [] o = "sub" -> x - y
      [] o = "mul" -> x * y
      [] OTHER -> TruncDiv(x, y)

\* x op y in the element type: IEEE-754 for floats, modulo 2^w for integers.
ScalarOp(t, o, x, y) == IF IsFloat(t) THEN FloatOp(o, x, y) ELSE Wrap(t, Exact(o, x, y))

\* The shim the dispatcher called.
Shim == shims[Len(shims)]

\* A call of an any-dim element-wise entry point has returned.
ElementwiseDone(sh) == pc = "done" /\ shape = sh /\ form = "xany"

\* C13: after <T>_xany_{add,sub,mul,div}_value(value, a, result) returns,
\* result has a's length and result[i] = a[i] op value for every i, the
\* element of a being the left operand, for every length (lengths below
\* one register included), type and backend.
C13_VectorXValue ==
    ElementwiseDone("vector_x_value") =>
        /\ Len(result) = Len(a)
        /\ \A e \in 1..Len(a) : result[e] = ScalarOp(ty, op, a[e], value)

\* i8_xany_sub_value(100, [-128, -7, -1], result) on Neon: three elements,
\* less than one register; -128 - 100 wraps to 28.
C13_Witness ==
    /\ ElementwiseDone("vector_x_value")
    /\ Shim = "neon" /\ ty = "i8" /\ op = "sub"
    /\ value = 100 /\ a = <<-128, -7, -1>>
    /\ result = <<28, -107, -101>>

\* C14: after <T>_xany_{add,sub,mul,div}_vector(a, b, result) returns,
\* result[i] = a[i] op b[i] for every i, each element with its own divisor;
\* the integer quotient is truncated towards zero.
C14_VectorXVector ==
    ElementwiseDone("vector_x_vector") =>
        /\ Len(result) = Len(a)
        /\ \A e \in 1..Len(a) : result[e] = ScalarOp(ty, op, a[e], b[e])

\* i8_xany_div_vector on Neon over 17 elements: -128 / 2, -7 / -1 and
\* -1 / 5 = 0 are divided in the first register, the last element in the tail.
C14_Witness ==
    /\ ElementwiseDone("vector_x_vector")
    /\ Shim = "neon" /\ ty = "i8" /\ op = "div" /\ Len(a) = 17
    /\ a[1] = -128 /\ b[1] = 2 /\ result[1] = -64
    /\ a[2] = -7 /\ b[2] = -1 /\ result[2] = 7
    /\ a[3] = -1 /\ b[3] = 5 /\ result[3] = 0
    /\ result[17] = TruncDiv(a[17], b[17])

\* The call was given a length that is the length of its slices.
LengthsAgree == form = "xany" \/ DIMS = Len(a)

\* The call is one of add_value(0, a), sub_value(0, a), mul_value(1, a),
\* div_value(1, a) or add_vector(a, zero).
IdentityCall ==
    IF shape = "vector_x_value" THEN
        IF op \in {"add", "sub"} THEN value = 0 ELSE value = 1
    ELSE shape = "vector_x_vector" /\ op = "add" /\ b = Zeros(Len(a))

\* C15: add_value(0, a), sub_value(0, a), mul_value(1, a), div_value(1, a)
\* and add_vector(a, zero) leave result equal to a.
C15_IdentityLaws ==
    (pc = "done" /\ LengthsAgree /\ IdentityCall) => result = a

\* u8_xany_mul_value(1, a, result) on the fallback over 17 elements, 255
\* among them, has returned a.
C15_Witness ==
    /\ pc = "done" /\ form = "xany" /\ IdentityCall
    /\ shape = "vector_x_value" /\ op = "mul" /\ ty = "u8" /\ Shim = "fallback"
    /\ Len(a) = 17 /\ a[6] = 255
    /\ result = a

\* C17: max_vertical(a, a, result) and min_vertical(a, a, result) leave
\* result equal to a (a NaN of a stays a NaN at its index).
C17_VerticalIdempotent ==
    (pc = "done" /\ shape = "vertical" /\ LengthsAgree /\ b = a) => result = a

\* i8_xany_min_vertical(a, a, result) on Neon over 17 elements (one register
\* and a tail of one), -128 and 127 among them, has returned a.
C17_Witness ==
    /\ pc = "done" /\ shape = "vertical" /\ form = "xany" /\ b = a
    /\ op = "min" /\ ty = "i8" /\ Shim = "neon"
    /\ Len(a) = 17 /\ a[1] = -128 /\ a[7] = 127
    /\ result = a

\* The second operand of element e of an element-wise call.
OperandB(e) == IF shape = "vector_x_value" THEN value ELSE b[e]

\* C19: for the integer types the horizontal sum is the mathematical sum
\* modulo 2^w (two's complement for the signed types), and element-wise add,
\* sub and mul are the exact results modulo 2^w, on every backend and for
\* every distribution of the elements over the accumulators.
C19_IntegerOverflowWraps ==
    (pc = "done" /\ ~IsFloat(ty) /\ LengthsAgree) =>
        /\ (shape = "horizontal" /\ op = "sum") => ret = Wrap(ty, SumAll(a))
        /\ (shape \in {"vector_x_value", "vector_x_vector"} /\ op \in {"add", "sub", "mul"}) =>
               \A e \in 1..Len(a) : result[e] = Wrap(ty, Exact(op, a[e], OperandB(e)))

\* i8_xany_sum_horizontal on Neon over 130 elements (one dense block of
\* eight registers and a tail of two): the elements add up to 1556, the
\* call returns 1556 - 6 * 256 = 20.
C19_Witness ==
    /\ pc = "done" /\ shape = "horizontal" /\ op = "sum" /\ form = "xany"
    /\ ty = "i8" /\ Shim = "neon"
    /\ Len(a) = 130 /\ SumAll(a) = 1556
    /\ ret = 20

\* C12: no step of a call changes an element of a, b, the matrix or the
\* scalar value; element-wise and two-vector vertical calls store only at
\* indices below result.len() (the memory behind result stays as it was),
\* and reductions store nothing.
C12_FrameEffect ==
    [][/\ a' = a /\ b' = b /\ value' = value /\ matrix' = matrix
       /\ Len(result') = Len(result0)
       /\ shape \in {"horizontal", "distance"} => result' = result]_vars

(***************************************************************************)
(* Properties of sequences of calls.                                       *)
(***************************************************************************)
\* The calls that have returned, in order; calls that read outside their
\* slices are left out (what they read is not an input).
Finished == IF pc = "done" /\ ~oob THEN Append(calls, Returned) ELSE calls

SameInputs(c, d) == c.a = d.a /\ c.b = d.b /\ c.value = d.value

CommutativeCall ==
    \/ shape = "vector_x_vector" /\ op = "add"
    \/ shape = "vertical" /\ op = "max"
    \/ shape = "distance"

\* The first two calls have returned and the second had the two inputs of
\* the first in the other order.
SwappedPair ==
    /\ Len(Finished) >= 2
    /\ Finished[1].b # <<>>
    /\ Finished[2].a = Finished[1].b /\ Finished[2].b = Finished[1].a

\* The two calls wrote the same result and returned the same value.
SameOutcome ==
    IF shape = "distance" THEN Finished[1].ret = Finished[2].ret
    ELSE Finished[1].result = Finished[2].result

\* C16 as stated: for all a and b of equal length, add_vector, max_vertical,
\* dot and euclidean give the same outcome on (a, b) and on (b, a).
C16_CommutativeEveryInput ==
    (CommutativeCall /\ SwappedPair) => SameOutcome

\* C16 amended: the same, the float max_vertical on inputs without NaN.
C16_CommutativeNaNFree ==
    (/\ CommutativeCall /\ SwappedPair
     /\ (IsFloat(ty) /\ op = "max") => (NoNaN(Finished[1].a) /\ NoNaN(Finished[1].b)))
        => SameOutcome

\* i8_xany_max_vertical on Neon over 17 elements, called on (a, b) and then
\* on (b, a) with a # b, wrote max(-128, 2) = 2 at index 0 both times.
C16_Witness ==
    /\ CommutativeCall /\ SwappedPair /\ SameOutcome
    /\ pc = "done" /\ Len(calls) = 1
    /\ shape = "vertical" /\ ty = "i8" /\ Shim = "neon" /\ Len(a) = 17
    /\ a # b /\ b[1] = -128 /\ a[1] = 2
    /\ result[1] = 2 /\ calls[1].result[1] = 2

\* C18: the sum of the first n elements plus the sum of the rest equals the
\* sum of the whole vector, for every split point and whatever phases of
\* the kernel the three calls go through (modulo 2^w for the integers).
C18_SumOfParts ==
    (pc = "done" /\ ~oob /\ Len(calls) = 2) =>
        Wrap(ty, calls[2].ret + ret) = calls[1].ret

\* f64_xany_avx512_nofma_sum_horizontal over 87 elements split at 64: the
\* whole goes through the dense loop and the masked tail, the first part
\* through the dense loop only, the second through the masked tail only.
C18_Witness ==
    /\ pc = "done" /\ ~oob /\ Len(calls) = 2
    /\ kernel = XanySumH
    /\ Len(calls[1].a) = BLOCK + 2 * LANES + 7 /\ calls[1].n = BLOCK
    /\ Len(calls[2].a) = BLOCK /\ Len(a) = 2 * LANES + 7
    /\ calls[1].ret = SumAll(calls[1].a)
    /\ calls[2].ret + ret = calls[1].ret

(***************************************************************************)
(* Properties of concurrent calls.                                         *)
(***************************************************************************)
\* The second operand of the call of thread t, from the caller's inputs.
AloneOperand(t) == IF threads[t].shape = "vector_x_value" THEN Broadcast(value, Len(a)) ELSE b

\* What the call of thread t writes when it runs alone.
AloneResult(t) == GenericElementwise(threads[t].shim, ty, threads[t].op, a, AloneOperand(t))

\* The result buffer of thread t as it is in memory.
ResultOf(t) == SubSeq(mem, ResultBase(t) + 1, ResultBase(t) + Len(a))

\* C20: in every interleaving of two calls with separate result buffers the
\* inputs stay as they were, each result buffer holds at every moment what
\* its own call has stored so far (the elements of the call run alone, then
\* the buffer's old content), and a call that has returned has returned
\* and written what it does when run alone.
C20_ThreadsIndependent ==
    /\ SubSeq(mem, 1, Len(a)) = a
    /\ SubSeq(mem, Len(a) + 1, 2 * Len(a)) = b
    /\ \A t \in Tids : "pc" \in DOMAIN threads[t] =>
           IF threads[t].shape = "horizontal" THEN
               /\ ResultOf(t) = Zeros(Len(a))
               /\ threads[t].pc = "done" => threads[t].ret = GenericSum(threads[t].shim, ty, a)
           ELSE
               \A e \in 1..Len(a) :
                   ResultOf(t)[e] = IF e <= threads[t].at THEN AloneResult(t)[e] ELSE 0

\* On Neon two f32 calls over nine elements are both in flight: each has
\* stored its first register and holds the loaded lanes of its second, the
\* stored elements are those of the calls run alone and the rest of both
\* buffers is untouched.
C20_Witness ==
    /\ \A t \in Tids : Running(t, "store") /\ threads[t].shim = "neon" /\ threads[t].at = 4
    /\ ty = "f32" /\ Len(a) = 9
    /\ threads[1].op = "mul" /\ threads[2].op = "sub"
    /\ ResultOf(1)[4] = a[4] * value /\ ResultOf(2)[4] = a[4] - b[4]
    /\ ResultOf(1)[5] = 0 /\ ResultOf(2)[5] = 0

(***************************************************************************)
(* Termination of the kernels.                                             *)
(***************************************************************************)
\* The loops are steered by the lengths alone: one input per kernel, length
\* and row count.
InitTermination ==
    /\ InitKernel
    /\ kernel \in HorizontalKernels => a = Plain(Len(a))
    /\ kernel \notin HorizontalKernels =>
           matrix = Matrix(Len(matrix), RowLen, -1, RowLen - 1, FALSE)

\* A call that has started is not suspended: the thread keeps running it.
SpecTermination == InitTermination /\ [][NextKernel]_vars /\ WF_vars(NextKernel)

\* The step is an iteration of the dense, register or masked loop that
\* stays inside the loop.
LoopStep == pc \in {"dense", "regtail", "masked"} /\ pc' = pc

\* The any-dim call, which follows every const-dim call, has returned.
Completed == pc = "done" /\ form = "xany"

\* C21: every iteration of the dense loop (i += 64), of the register tail
\* and of the masked tail (i += 8), in the horizontal kernels and around
\* the per-row loops of the vertical ones, strictly increases the index, and
\* every call on an input that meets the kernel's contract returns.
C21_RunsToCompletion == [][LoopStep => i' > i]_vars /\ <>Completed

\* A vertical sum over two rows has gone through its dense loop and three
\* masked iterations and has returned.
C21_Witness ==
    /\ pc = "done" /\ kernel = XanySumV
    /\ Len(matrix) = 2 /\ RowLen = BLOCK + 2 * LANES + 7
    /\ Len(trace) = 4
    /\ i >= RowLen

(***************************************************************************)
(* Which indices the phases of the kernels touch.                          *)
(***************************************************************************)
\* The Rust indices of a slice of length len that the loop iteration behind
\* one entry of the trace reads.
ReadsOf(e, len) ==
    CASE e[1] = "dense" -> e[2]..(e[2] + BLOCK - 1)
      [] e[1] = "reg" -> e[2]..(e[2] + LANES - 1)
      [] e[1] = "scalar" -> e[2]..(len - 1)
      [] e[1] = "masked" -> e[2]..(e[2] + Min(e[3], LANES) - 1)
      [] OTHER -> {}

\* The iterations of one phase, as positions of the trace.
IterationsOf(ph) == {k \in 1..Len(trace) : trace[k][1] = ph}

\* Every index the phase ph reads.
PhaseReads(ph, len) == UNION {ReadsOf(trace[k], len) : k \in IterationsOf(ph)}

\* How many iterations read index n.
TimesRead(n, len) == Cardinality({k \in 1..Len(trace) : n \in ReadsOf(trace[k], len)})

\* C22: when f32_xany_avx2_nofma_max_horizontal has left its loops, the
\* dense loop has read exactly [0, len - len mod 64) in blocks of 64, the
\* register tail exactly [len - len mod 64, len - len mod 8) in steps of 8
\* with every load inside the slice, folding into the first accumulator
\* only, and the scalar tail exactly [len - len mod 8, len); every index
\* was read exactly once.
C22_ThreePhasePartition ==
    (kernel = XanyMaxH /\ pc \in {"reduce", "done"}) =>
        LET len == Len(a) IN
        /\ PhaseReads("dense", len) = 0..(len - (len % BLOCK) - 1)
        /\ \A k \in IterationsOf("dense") : trace[k][2] % BLOCK = 0
        /\ PhaseReads("reg", len) = (len - (len % BLOCK))..(len - (len % LANES) - 1)
        /\ \A k \in IterationsOf("reg") : trace[k][2] + LANES <= len
        /\ PhaseReads("scalar", len) = (len - (len % LANES))..(len - 1)
        /\ \A n \in 0..(len - 1) : TimesRead(n, len) = 1
        /\ ~oob
        /\ len < BLOCK => \A j \in 2..8 : acc[j] = Set1(NEG_INFINITY)

\* One dense block, two registers and a scalar tail of seven.
C22_Witness ==
    /\ kernel = XanyMaxH /\ pc = "done"
    /\ Len(a) = BLOCK + 2 * LANES + 7
    /\ trace = <<<<"dense", 0>>, <<"reg", BLOCK>>, <<"reg", BLOCK + LANES>>,
                 <<"scalar", BLOCK + 2 * LANES>>, <<"fold", 0>>>>
    /\ ret = PEAK

\* C23: when f64_xany_avx512_nofma_sum_horizontal or _vertical has left its
\* loops, the masked tail has made ceil((len mod 64) / 8) iterations, the
\* k-th at offset (len - len mod 64) + 8 k and with the count n = len - i,
\* n >= 1, handed to the masked load and store; with a load and store that
\* touch the first min(n, 8) lanes, no index from len on was read or
\* written and every index of the tail was processed exactly once.
C23_MaskedTail ==
    (/\ kernel \in {XanySumH, XanySumV}
     /\ pc \in {"reduce", "done"}
     /\ kernel = XanySumV => ValidMatrix) =>
        LET len == InputLen
            base == len - (len % BLOCK)
            T == IterationsOf("masked")
        IN  /\ Cardinality(T) = ((len % BLOCK) + LANES - 1) \div LANES
            /\ \A k \in T :
                   /\ trace[k][2] = base + LANES * Cardinality({h \in T : h < k})
                   /\ trace[k][3] = len - trace[k][2]
                   /\ trace[k][3] >= 1
            /\ PhaseReads("masked", len) = base..(len - 1)
            /\ \A n \in base..(len - 1) : TimesRead(n, len) = 1
            /\ ~oob
            /\ kernel = XanySumV => Len(results) = len

\* Two rows of 64 + 23 elements: the tail took three masked iterations,
\* the last one with seven elements left.
C23_Witness ==
    /\ kernel = XanySumV /\ pc = "done"
    /\ Len(matrix) = 2 /\ RowLen = BLOCK + 2 * LANES + 7
    /\ trace = <<<<"dense", 0>>, <<"masked", BLOCK, 2 * LANES + 7>>,
                 <<"masked", BLOCK + LANES, LANES + 7>>,
                 <<"masked", BLOCK + 2 * LANES, 7>>>>
    /\ results[RowLen] = SumAll(ColumnOf(matrix, RowLen))

VerticalKernels == {XconstMaxV, XanyMaxV, XconstSumV, XanySumV}

\* A vertical kernel stores the columns of an iteration where it read them:
\* result[i + e] receives the lanes loaded at arr.add(i + e).
WritesOf(e, len) == ReadsOf(e, len)

\* What column j of the matrix reduces to under the kernel's operation.
ColumnResult(j) ==
    IF kernel \in MaxKernels THEN FoldMaxIter(ColumnOf(matrix, j))
    ELSE SumAll(ColumnOf(matrix, j))

\* C24: when a vertical kernel has returned on a matrix of R >= 1 rows of
\* one length L, every output index below L was written by exactly one
\* iteration and holds a computed value, not the 0.0 of the allocation;
\* every block write is at an i with i + 64 <= L, no two iterations write
\* the same index, nothing outside [0, L) was read or written, and (on
\* NaN-free rows) each element is the reduction of its own column alone,
\* so nothing is carried from one column block to the next.
C24_VerticalWritesOnce ==
    (kernel \in VerticalKernels /\ pc = "done" /\ ValidMatrix) =>
        /\ Len(results) = RowLen
        /\ \A n \in 0..(RowLen - 1) :
               /\ Cardinality({k \in 1..Len(trace) : n \in WritesOf(trace[k], RowLen)}) = 1
               /\ results[n + 1] # 0
        /\ \A k \in IterationsOf("dense") : trace[k][2] + BLOCK <= RowLen
        /\ \A k \in 1..Len(trace) : WritesOf(trace[k], RowLen) \subseteq 0..(RowLen - 1)
        /\ ~oob
        /\ (\A m \in 1..Len(matrix) : NoNaN(matrix[m])) =>
               \A j \in 1..RowLen : results[j] = ColumnResult(j)

\* Two rows of 2 * 64 + 23 columns with the peak in the first block: the
\* column one block further on holds its own maximum.
C24_Witness ==
    /\ kernel = XanyMaxV /\ pc = "done"
    /\ Len(matrix) = 2 /\ RowLen = 2 * BLOCK + 2 * LANES + 7
    /\ \A m \in 1..2 : NoNaN(matrix[m])
    /\ matrix[2][1] = PEAK
    /\ results[1] = PEAK
    /\ results[BLOCK + 1] < PEAK
    /\ Len(trace) = 5

(***************************************************************************)
(* Degenerate inputs and inputs outside the contract.                      *)
(***************************************************************************)
\* The length the kernel expects every row to have.
ExpectedLen == IF form = "xconst" THEN DIMS ELSE RowLen

\* C25 as stated: with debug assertions on, a vertical kernel that is
\* handed a row whose length differs from DIMS (const-dim) or from the first
\* row's length (any-dim) halts before it reads from that row: it completes
\* no iteration, reads nothing out of bounds and does not return.
C25_RowLengthHalts ==
    (/\ debug
     /\ kernel \in VerticalKernels
     /\ Len(matrix) >= 1
     /\ RowLenMismatch(matrix, ExpectedLen)) =>
        /\ pc # "done"
        /\ trace = <<>>
        /\ ~oob

\* C26: the any-dim vertical kernels called with a matrix of zero rows halt
\* at matrix[0], in debug and release builds alike: no output vector has
\* been allocated, nothing was read and the call does not return.
C26_EmptyMatrixHalts ==
    (kernel \in {XanyMaxV, XanySumV} /\ Len(matrix) = 0 /\ pc # "enter") =>
        /\ pc = "panic_index"
        /\ results = <<>>
        /\ trace = <<>>
        /\ ~oob

\* The release build of the vertical sum has halted on the empty matrix.
C26_Witness ==
    /\ kernel = XanySumV /\ matrix = <<>> /\ ~debug /\ prev = <<>>
    /\ pc = "panic_index"
    /\ results = <<>>

\* C27: a reduction over no data returns the start value of its
\* accumulators and reads nothing: the any-dim horizontal max of an empty
\* slice is negative infinity, the any-dim horizontal sum of one is 0, and
\* the const-dim vertical kernels called with zero rows return DIMS
\* elements, all negative infinity (max) or all 0 (sum).
C27_EmptyReduction ==
    /\ (pc = "done" /\ kernel = XanyMaxH /\ a = <<>>) =>
           ret = NEG_INFINITY /\ trace = <<<<"fold", 0>>>> /\ ~oob
    /\ (pc = "done" /\ kernel = XanySumH /\ a = <<>>) =>
           ret = 0 /\ trace = <<<<"fold", 0>>>> /\ ~oob
    /\ (pc = "done" /\ kernel \in {XconstMaxV, XconstSumV} /\ Len(matrix) = 0
            /\ DIMS % BLOCK = 0) =>
           /\ Len(results) = DIMS
           /\ \A j \in 1..DIMS :
                  results[j] = IF kernel = XconstMaxV THEN NEG_INFINITY ELSE 0
           /\ ~oob

\* The const-dim vertical max of no rows has returned 64 times negative
\* infinity.
C27_Witness ==
    /\ pc = "done" /\ kernel = XconstMaxV /\ matrix = <<>> /\ DIMS = BLOCK
    /\ results = [j \in 1..BLOCK |-> NEG_INFINITY]
    /\ trace = <<<<"dense", 0>>>>

(***************************************************************************)
(* The register capability on whole registers (impl_neon.rs and            *)
(* impl_fallback.rs).  A Neon register is a 128-bit vector, here the       *)
(* sequence of its lane bit patterns; a Fallback register is the element   *)
(* itself.                                                                 *)
(***************************************************************************)
IntTypes == {"i8", "i16", "i32", "i64", "u8", "u16", "u32", "u64"}

\* The bit pattern of the value v of the type t (two's complement).
LaneBits(t, v) == v % (2 ^ Width(t))

\* The value the type t gives to the bit pattern p.
LaneValue(t, p) ==
    IF Signed(t) /\ p >= 2 ^ (Width(t) - 1) THEN p - 2 ^ Width(t) ELSE p

\* vld1q_*(mem): lane k of the register is element k of the memory.
Vld1q(t, m) == [k \in 1..Len(m) |-> LaneBits(t, m[k])]

\* vst1q_*(mem, reg): element k of the memory is lane k of the register.
Vst1q(t, reg) == [k \in 1..Len(reg) |-> LaneValue(t, reg[k])]

\* mem::transmute::<_, [T; N]>(reg): the register's bytes read as an array
\* of N elements of the type T; element idx holds lane idx.
Unpacked(t, reg) == [k \in 1..Len(reg) |-> LaneValue(t, reg[k])]

\* mem::transmute::<_, Self::Register>(result).
Repacked(t, arr) == [k \in 1..Len(arr) |-> LaneBits(t, arr[k])]

\* core::cmp::max / core::cmp::min on two values of an integer type.
CmpOrd(o, x, y) ==
    IF o = "max" THEN (IF y >= x THEN y ELSE x) ELSE (IF x <= y THEN x ELSE y)

\* The scalar operation of the lane loop: AutoMath::mul / AutoMath::div in
\* mul and div, core::cmp::max / core::cmp::min in max and min.
LaneOp(t, o, x, y) ==
    IF o \in {"max", "min"} THEN CmpOrd(o, x, y) ELSE MathOp(t, o, x, y)

\* The lane loop with a range that ends one lane early.
LaneLoop_StopsEarly(t, o, l1_unpacked, l2_unpacked) ==
    [idx \in 1..Len(l1_unpacked) |->
        IF idx = Len(l1_unpacked) THEN 0
        ELSE LaneOp(t, o, l1_unpacked[idx], l2_unpacked[idx])]

\* The lane loop that compares and multiplies the bit patterns as
\* unsigned numbers whatever the type.
LaneLoop_Unsigned(t, o, l1_unpacked, l2_unpacked) ==
    [idx \in 1..Len(l1_unpacked) |->
        LET u1 == l1_unpacked[idx] % (2 ^ Width(t))
            u2 == l2_unpacked[idx] % (2 ^ Width(t))
        IN  IF o \in {"max", "min"}
            THEN LaneValue(t, CmpOrd(o, u1, u2))
            ELSE LaneOp(t, o, l1_unpacked[idx], l2_unpacked[idx])]

\* let mut result = [0; N];
\* for (idx, (l1, l2)) in zip(l1_unpacked, l2_unpacked).enumerate() {
\*     result[idx] = <scalar op>(l1, l2);
\* }
LaneLoop(t, o, l1_unpacked, l2_unpacked) ==
    [idx \in 1..Len(l1_unpacked) |->
        IF idx <= Min(Len(l1_unpacked), Len(l2_unpacked))
        THEN LaneOp(t, o, l1_unpacked[idx], l2_unpacked[idx])
        ELSE 0]

\* The operations Neon computes lane by lane on the stack: the integer
\* division of every type, and mul, max and min of i64 and u64.
ScalarLanes(t, o) == o = "div" \/ (Bits(t) = 64 /\ o \in {"mul", "max", "min"})

\* <Neon as SimdRegister<T>>::{add, sub, mul, div, max, min} on registers
\* of an integer type T: the intrinsic of the type (vaddq_s8, vmulq_u16,
\* vmaxq_s32, ...) or the lane loop.
NeonReg(t, o, l1, l2) ==
    IF ScalarLanes(t, o)
    THEN Repacked(t, LaneLoop(t, o, Unpacked(t, l1), Unpacked(t, l2)))
    ELSE [k \in 1..Len(l1) |->
             LaneBits(t, NeonOp(t, o, LaneValue(t, l1[k]), LaneValue(t, l2[k])))]

\* Neon fmadd with the accumulator as a factor: mul(l1, acc) + l2.
NeonFmadd_AccAsFactor(t, l1, l2, ac) ==
    NeonReg(t, "add", NeonReg(t, "mul", l1, ac), l2)

\* <Neon as SimdRegister<T>>::fmadd(l1, l2, acc) of an integer type:
\* let res = mul(l1, l2); add(res, acc).
NeonFmadd(t, l1, l2, ac) ==
    LET res == NeonReg(t, "mul", l1, l2)
    IN  NeonReg(t, "add", res, ac)

\* Registers of one DenseLane (a, b, .., h).
DENSE == 8

\* SimdRegister::mul_dense / add_dense: the operation on each of the eight
\* registers of the two dense lanes.
NeonDense(t, o, l1, l2) == [r \in 1..DENSE |-> NeonReg(t, o, l1[r], l2[r])]

\* <Neon as SimdRegister<T>>::fmadd_dense(l1, l2, acc) of an integer type:
\* let res = mul_dense(l1, l2); add_dense(res, acc).
NeonFmaddDense(t, l1, l2, ac) ==
    LET res == NeonDense(t, "mul", l1, l2)
    IN  NeonDense(t, "add", res, ac)

\* The largest (o = "max") or smallest value of the lanes.
Across(o, lanes) ==
    CHOOSE v \in {lanes[k] : k \in 1..Len(lanes)} :
        \A k \in 1..Len(lanes) : IF o = "max" THEN v >= lanes[k] ELSE v <= lanes[k]

\* <Neon as SimdRegister<T>>::{sum_to_value, max_to_value, min_to_value} of
\* an integer type: vaddvq, and vmaxvq / vminvq of the type; for i64 and
\* u64 let [a, b] = transmute(reg); core::cmp::max(a, b) / min(a, b).
NeonToValue(t, o, reg) ==
    IF o = "sum" THEN SumToValue(t, Vst1q(t, reg))
    ELSE IF Bits(t) = 64 THEN
        LET ab == Unpacked(t, reg)
        IN  CmpOrd(o, ab[1], ab[2])
    ELSE Across(o, Vst1q(t, reg))

\* <Fallback as SimdRegister<T>>::fmadd(l1, l2, acc):
\* let res = AutoMath::mul(l1, l2); AutoMath::add(res, acc).
FallbackFmadd(t, l1, l2, ac) ==
    LET res == MathOp(t, "mul", l1, l2)
    IN  MathOp(t, "add", res, ac)

\* <Fallback as SimdRegister<T>>::{sum_to_value, max_to_value, min_to_value}.
FallbackToValue(t, o, reg) == reg

(***************************************************************************)
(* Direct calls of the register operations.  The caller's arrays a, b and  *)
(* acc hold the typed lane values; a Neon call loads them, applies the     *)
(* operation and writes the register back, a Fallback call passes the      *)
(* elements themselves.                                                    *)
(***************************************************************************)
BinaryOps == {"add", "sub", "mul", "div", "max", "min"}

ToValueOps == {"sum_to_value", "max_to_value", "min_to_value"}

ReduceOf(o) ==
    CASE o = "sum_to_value" -> "sum"
      [] o = "max_to_value" -> "max"
      [] OTHER -> "min"

\* Lane values of the type: its extremes, both signs of the signed types
\* and both halves of the range of the unsigned ones.
LaneValues(t) ==
    IF Signed(t)
    THEN <<0 - 2 ^ (Width(t) - 1), -7, -1, 0, 3, 2 ^ (Width(t) - 1) - 1, 2>>
    ELSE <<0, 1, 3, 2 ^ (Width(t) - 1), 2 ^ Width(t) - 1, 2 ^ (Width(t) - 1) - 1, 7>>

\* Divisors: no zero among them.
Divisors(t) ==
    IF Signed(t)
    THEN <<2, -1, 5, 0 - 2 ^ (Width(t) - 1), 3, -3>>
    ELSE <<2, 5, 1, 2 ^ Width(t) - 1, 2 ^ (Width(t) - 1), 3>>

\* Elements the call takes from each array.
OperandLen(be, t, o) ==
    IF o = "fmadd_dense" THEN DENSE * LanesOf(be, t) ELSE LanesOf(be, t)

InitRegister ==
    /\ pc = "call"
    /\ shape = "register"
    /\ kernel \in {"neon", "fallback"}
    /\ ty \in IntTypes
    /\ op \in BinaryOps \cup ToValueOps \cup
              (IF kernel = "neon" THEN {"fmadd", "fmadd_dense"} ELSE {"fmadd"})
    /\ a \in {SampleOf(LaneValues(ty), OperandLen(kernel, ty, op), sh) :
                  sh \in 0..(Len(LaneValues(ty)) - 1)}
    /\ b \in IF op \in ToValueOps THEN {<<>>}
             ELSE IF op = "div" THEN
                 {SampleOf(Divisors(ty), Len(a), sh) : sh \in 0..(Len(Divisors(ty)) - 1)}
                 \cup {[SampleOf(Divisors(ty), Len(a), 0) EXCEPT ![z] = 0] : z \in {1, Len(a)}}
             ELSE IF op \in {"fmadd", "fmadd_dense"} THEN
                 {SampleOf(Divisors(ty), Len(a), sh) : sh \in 0..MaxShift}
             ELSE {SampleOf(LaneValues(ty), Len(a), sh) :
                       sh \in 0..(Len(LaneValues(ty)) - 1)}
    /\ acc \in IF op \in {"fmadd", "fmadd_dense"}
               THEN {SampleOf(LaneValues(ty), Len(a), sh) : sh \in {2, 5}}
               ELSE {<<>>}
    /\ arch = IF kernel = "neon" THEN "aarch64" ELSE "other"
    /\ host = [avx512f |-> FALSE, avx2 |-> FALSE, neon |-> kernel = "neon"]
    /\ nightly = FALSE
    /\ form = "xany"
    /\ DIMS = 0
    /\ value = 0
    /\ result = <<>>
    /\ result0 = <<>>
    /\ debug = FALSE
    /\ probes = <<>>
    /\ shims = <<>>
    /\ matrix = <<>>
    /\ i = 0
    /\ max = 0
    /\ results = <<>>
    /\ ret = 0
    /\ oob = FALSE
    /\ trace = <<>>
    /\ prev = <<>>
    /\ calls = <<>>
    /\ mem = <<>>
    /\ threads = <<>>

registerVars ==
    <<shape, form, DIMS, value, a, b, result0, arch, nightly, debug, host, probes,
      shims, kernel, matrix, i, acc, max, results, oob, trace, prev, op, ty, calls,
      mem, threads>>

\* R::add / sub / mul / div / max / min (l1, l2).
Reg_Binary ==
    /\ pc = "call" /\ shape = "register" /\ op \in BinaryOps
    /\ IF DivPanics(ty, op, b) THEN
           /\ pc' = "panic"
           /\ UNCHANGED result
       ELSE
           /\ result' = IF kernel = "neon"
                        THEN Vst1q(ty, NeonReg(ty, op, Vld1q(ty, a), Vld1q(ty, b)))
                        ELSE <<FallbackOp(ty, op, a[1], b[1])>>
           /\ pc' = "done"
    /\ UNCHANGED <<registerVars, ret>>

\* R::fmadd(l1, l2, acc).
Reg_Fmadd ==
    /\ pc = "call" /\ shape = "register" /\ op = "fmadd"
    /\ result' = IF kernel = "neon"
                 THEN Vst1q(ty, NeonFmadd(ty, Vld1q(ty, a), Vld1q(ty, b), Vld1q(ty, acc)))
                 ELSE <<FallbackFmadd(ty, a[1], b[1], acc[1])>>
    /\ pc' = "done"
    /\ UNCHANGED <<registerVars, ret>>

\* Neon::fmadd_dense(l1, l2, acc) on three dense lanes loaded from the
\* arrays, register r from offset r * N, the result written back likewise.
Reg_FmaddDense ==
    /\ pc = "call" /\ shape = "register" /\ op = "fmadd_dense"
    /\ LET N == LanesOf(kernel, ty)
           Dense(m) == [r \in 1..DENSE |-> Vld1q(ty, LoadReg(m, (r - 1) * N, N))]
           out == NeonFmaddDense(ty, Dense(a), Dense(b), Dense(acc))
       IN  result' = [e \in 1..(DENSE * N) |->
                         Vst1q(ty, out[((e - 1) \div N) + 1])[((e - 1) % N) + 1]]
    /\ pc' = "done"
    /\ UNCHANGED <<registerVars, ret>>

\* R::sum_to_value / max_to_value / min_to_value (reg).
Reg_ToValue ==
    /\ pc = "call" /\ shape = "register" /\ op \in ToValueOps
    /\ ret' = IF kernel = "neon"
              THEN NeonToValue(ty, ReduceOf(op), Vld1q(ty, a))
              ELSE FallbackToValue(ty, ReduceOf(op), a[1])
    /\ pc' = "done"
    /\ UNCHANGED <<registerVars, result>>

NextRegister ==
    \/ Reg_Binary
    \/ Reg_Fmadd
    \/ Reg_FmaddDense
    \/ Reg_ToValue

SpecRegister == InitRegister /\ [][NextRegister]_vars

(***************************************************************************)
(* Properties of the register operations.                                  *)
(***************************************************************************)
\* v is a value of the type t.
InType(t, v) ==
    IF Signed(t) THEN 0 - 2 ^ (Width(t) - 1) <= v /\ v < 2 ^ (Width(t) - 1)
    ELSE 0 <= v /\ v < 2 ^ Width(t)

\* v is the exact result x reduced to the type t.
ReducedTo(t, v, x) == InType(t, v) /\ (v - x) % (2 ^ Width(t)) = 0

RegisterDone(be, ops) ==
    pc = "done" /\ shape = "register" /\ kernel = be /\ op \in ops

\* C28: on Neon, div of every integer type and mul of i64 and u64 return a
\* register of 16, 8, 4 or 2 lanes by type in which lane k is the quotient
\* (truncated towards zero) or the product of lane k of l1 and lane k of l2,
\* reduced to the type, which is what the scalar fallback computes on the
\* same two values; no lane is left unassigned or taken from another lane.
C28_LaneExact ==
    (RegisterDone("neon", {"div", "mul"}) /\ (op = "div" \/ ty \in {"i64", "u64"})) =>
        /\ Len(result) = 128 \div Bits(ty)
        /\ Len(result) \in {16, 8, 4, 2}
        /\ \A k \in 1..Len(result) :
               /\ result[k] = FallbackOp(ty, op, a[k], b[k])
               /\ ReducedTo(ty, result[k],
                            IF op = "div" THEN TruncDiv(a[k], b[k]) ELSE a[k] * b[k])

\* An i64 division on Neon whose two lanes differ: -7 / 2 in lane 0
\* (truncated to -3), -1 / -1 in lane 1.
C28_Witness ==
    /\ RegisterDone("neon", {"div"})
    /\ ty = "i64"
    /\ a = <<-7, -1>>
    /\ b = <<2, -1>>
    /\ result = <<-3, 1>>

\* C29: on Neon, max and min of i64 registers order the lanes as signed
\* values and those of u64 registers as unsigned values: lane k of the
\* result is the larger (max) or smaller (min) of lane k of l1 and lane k
\* of l2, and max_to_value / min_to_value return the larger / smaller of
\* the two lanes of the register, negative i64 values and u64 values with
\* the top bit set included.
C29_WideOrdering ==
    /\ (RegisterDone("neon", {"max", "min"}) /\ ty \in {"i64", "u64"}) =>
           /\ Len(result) = 2
           /\ \A k \in 1..2 :
                  /\ result[k] \in {a[k], b[k]}
                  /\ IF op = "max" THEN result[k] >= a[k] /\ result[k] >= b[k]
                     ELSE result[k] <= a[k] /\ result[k] <= b[k]
    /\ (RegisterDone("neon", {"max_to_value", "min_to_value"}) /\ ty \in {"i64", "u64"}) =>
           /\ Len(a) = 2
           /\ ret \in {a[1], a[2]}
           /\ IF op = "max_to_value" THEN ret >= a[1] /\ ret >= a[2]
              ELSE ret <= a[1] /\ ret <= a[2]

\* An i64 max on Neon with a negative lane on either side: lane 0 comes
\* from l2, lane 1 from l1.
C29_Witness ==
    /\ RegisterDone("neon", {"max"})
    /\ ty = "i64"
    /\ a[1] < 0 /\ b[1] > 0 /\ result[1] = b[1]
    /\ a[2] >= 0 /\ b[2] < 0 /\ result[2] = a[2]

\* The lanes of the three arrays the call has read.
Operands == 1..OperandLen(kernel, ty, op)

\* C30: integer fmadd is the same function on Fallback and Neon.  Fallback
\* returns add(mul(l1, l2), acc) on its one element; Neon fmadd returns
\* add(mul(l1, l2), acc) and fmadd_dense add_dense(mul_dense(l1, l2), acc),
\* which in every lane is what Fallback returns for the values of that
\* lane: (l1 * l2 + acc) reduced modulo 2^w, the accumulator being the
\* addend.  Fallback's sum_to_value, max_to_value and min_to_value return
\* the register, which is the one element.
C30_FmaddAgrees ==
    /\ RegisterDone("fallback", {"fmadd"}) =>
           /\ result = <<FallbackOp(ty, "add", FallbackOp(ty, "mul", a[1], b[1]), acc[1])>>
           /\ ReducedTo(ty, result[1], a[1] * b[1] + acc[1])
    /\ RegisterDone("neon", {"fmadd"}) =>
           result = Vst1q(ty, NeonReg(ty, "add",
                                      NeonReg(ty, "mul", Vld1q(ty, a), Vld1q(ty, b)),
                                      Vld1q(ty, acc)))
    /\ RegisterDone("neon", {"fmadd", "fmadd_dense"}) =>
           /\ Len(result) = OperandLen("neon", ty, op)
           /\ \A k \in Operands :
                  /\ result[k] = FallbackFmadd(ty, a[k], b[k], acc[k])
                  /\ ReducedTo(ty, result[k], a[k] * b[k] + acc[k])
    /\ RegisterDone("fallback", ToValueOps) => ret = a[1]

\* A Neon fmadd in which one lane overflows the type and would differ had
\* the accumulator been multiplied.
C30_Witness ==
    /\ RegisterDone("neon", {"fmadd"})
    /\ \E k \in Operands :
           /\ ~InType(ty, a[k] * b[k] + acc[k])
           /\ acc[k] # 0
           /\ result[k] # Wrap(ty, a[k] * acc[k] + b[k])


====
